---- MODULE Spec2Model ----
(***************************************************************************)
(* Gesture classifier (HandDetector), activation sequencer (Home page) and *)
(* frame compositor (CloneEffect) of the shadow-clone effect, and the      *)
(* fruit-slicing mini-game (GameCanvas).                                   *)
(*                                                                         *)
(* Landmark coordinates are normalized floats in [0,1] in the program;     *)
(* here they are integers in hundredths, so 0.3 is 30 and 0.15 is 15.      *)
(* Math.sqrt is monotone, so sqrt(dx*dx+dy*dy) > t is compared as          *)
(* dx*dx+dy*dy > t*t.                                                      *)
(***************************************************************************)
EXTENDS Integers, Sequences, FiniteSets, TLC

VARIABLES
    results,        \* page.tsx: useState<Results|null>, <<>> is null, <<r>> is a result
    prevStatusRef,  \* HandDetector: prevStatusRef.current
    handStatus,     \* page.tsx: useState<HandStatus>
    jutsuRef,       \* page.tsx: jutsuRef.current
    jutsuActive,    \* page.tsx: useState(false)
    cloneCount,     \* page.tsx: useState(0)
    intervals,      \* pending setInterval timers: handle iv |-> the closure's `count`
    nextIv,         \* the handle the next setInterval call returns
    calls,          \* number of invocations of the status-changed callback so far
    variant,        \* which CloneEffect source is mounted: "panel" or "seg"
    activeRef,      \* CloneEffect: jutsuRef.current (last committed jutsuActive prop)
    countRef,       \* CloneEffect: countRef.current
    statusRef,      \* CloneEffect: statusRef.current
    resultsRef,     \* CloneEffect: resultsRef.current
    prevCountRef,   \* CloneEffect: prevCountRef.current
    flashRef,       \* CloneEffect: flashRef.current, in millionths
    segRef,         \* CloneEffect (seg): segRef.current is set (model loaded)
    maskRef,        \* CloneEffect (seg): 0 is null, else the tag of the stored mask:
                    \* the number of sessions started when the mask arrived
    segBusyRef,     \* CloneEffect (seg): segBusyRef.current
    segInFlight,    \* frames sent to the segmentation model and not yet answered
    videoReady,     \* webcamRef.current?.video exists and readyState >= 4
    video,          \* <<videoWidth, videoHeight>> of the camera video
    mounted,        \* the Home page (with CloneEffect and HandDetector) is mounted
    size,           \* CloneEffect: useState size <<w, h>>, the canvas dimensions
    lastDraw,       \* outcome of the latest execution of draw(): "skipped" or "drawn"
    rafPending,     \* render loop: the callback whose handle is in `raf` is pending
    pendingRafs,    \* number of animation-frame callbacks requested and not yet
                    \* run or cancelled
    canvas,         \* what the last executed draw left on the canvas
    smokes,         \* CloneEffect (seg): smokesRef.current, the particle list
    detector,       \* HandDetector: the async init is "loading", "ready", "failed"
                    \* or "cancelled" (it returned at `if (!alive) return`)
    hands,          \* HandDetector init effect: `hands` is "none" (null), "open" or "closed"
    camera,         \* HandDetector init effect: `camera` is "none" (null), "started"
                    \* or "stopped"
    segLoad,        \* CloneEffect (seg): the async init of the segmentation model
    unhandled,      \* promise rejections that reached no handler
    settings,       \* GameCanvas: useState<GameSettings>
    showSettings,   \* GameCanvas: useState(false), the settings panel is open
    loopSettings,   \* GameCanvas: the `settings` the closure of update holds
    stateRef,       \* GameCanvas: stateRef.current
    uiState,        \* GameCanvas: useState<GameState>
    scoreRef,       \* GameCanvas: scoreRef.current
    livesRef,       \* GameCanvas: livesRef.current
    fruitsRef,      \* GameCanvas: fruitsRef.current
    trailRef,       \* GameCanvas: trailRef.current
    frameRef,       \* GameCanvas: frameRef.current
    fingerRef,      \* GameCanvas: fingerRef.current
    canvasSize      \* GameCanvas: <<canvas.width, canvas.height>>

pageVars == <<results, prevStatusRef, handStatus, jutsuRef, jutsuActive,
              cloneCount, intervals, nextIv, calls>>

\* what a draw may change besides the animation-frame bookkeeping
drawVars == <<flashRef, segBusyRef, segInFlight, canvas, smokes>>

\* the refs and flags no execution of draw() writes
propVars == <<variant, activeRef, countRef, statusRef, resultsRef, prevCountRef,
              segRef, maskRef, videoReady, video, mounted>>

compVars == <<variant, activeRef, countRef, statusRef, resultsRef, prevCountRef,
              flashRef, segRef, maskRef, segBusyRef, segInFlight, videoReady, video,
              mounted, size, lastDraw, rafPending, pendingRafs, canvas, smokes>>

\* the loading of the two models
loadVars == <<detector, hands, camera, segLoad, unhandled>>

\* the mini-game
gameVars == <<settings, showSettings, loopSettings, stateRef, uiState, scoreRef,
              livesRef, fruitsRef, trailRef, frameRef, fingerRef, canvasSize>>

vars == <<results, prevStatusRef, handStatus, jutsuRef, jutsuActive,
          cloneCount, intervals, nextIv, calls,
          variant, activeRef, countRef, statusRef, resultsRef, prevCountRef,
          flashRef, segRef, maskRef, segBusyRef, segInFlight, videoReady, video,
          mounted, size, lastDraw, rafPending, pendingRafs, canvas, smokes,
          detector, hands, camera, segLoad, unhandled,
          settings, showSettings, loopSettings, stateRef, uiState, scoreRef,
          livesRef, fruitsRef, trailRef, frameRef, fingerRef, canvasSize>>

(***************************** bounds **************************************)
MaxSessions == 3
MaxCalls == 5
\* result deliveries in the specification with resizes and the unmount
MaxCallsComp == 1
\* result deliveries in the specification of the sessions of both compositors
MaxCallsLoad == 2
\* status deliveries in the specification of the stored mask
MaxCallsMask == 3
\* frames of play of the mini-game
MaxFrames == 360
\* particles per smoke burst (80 in the source)
BurstSize == 1
\* the largest clone count given to the panel layout
MaxCount == 8
\* the largest side of a canvas or a video given to drawCover
MaxDim == 4
\* the widest of the narrow windows given to the panel layout
MaxWidth == 48

(************************ program constants ********************************)
FarThreshold == 30
ActiveThreshold == 15
CloneStep == 2
CloneMax == 4
PanelCap == 6
PanelGap == 4
MainWidthPercent == 42
MaxVisiblePanels == 5
CutoutCap == 6
FlashOne == 1000000
FlashThreshold == 20000
\* smoke: life in thousandths, radius in tenths of a pixel
SmokeDecay == 12
SmokeGrowth == 5
LifeMin == 600
LifeSpan == 800

HandStatus == {"idle", "far", "near", "active", "fist"}

(************************** landmark inputs ********************************)
\* the landmark indices the classifier reads: wrist, and pip/tip of the
\* index, middle, ring and pinky fingers
WRIST == 0
Tips == {8, 12, 16, 20}
Pips == {6, 10, 14, 18}
LandmarkIdx == {WRIST} \cup Tips \cup Pips

\* the y values used for finger landmarks: every pip is at FingerY.pip, a
\* tip is above it (smaller y), level with it, or below it (larger y)
FingerY == [pip |-> 50, up |-> 40, level |-> 50, down |-> 60]
PipY == FingerY.pip
Up == FingerY.up
Level == FingerY.level
Down == FingerY.down

\* finger poses: the y of each finger tip
PoseFist == [t \in Tips |-> Down]
PoseSeal == [t \in Tips |-> IF t \in {8, 12} THEN Up ELSE Down]
PoseOpen == [t \in Tips |-> Up]
PoseIndexOnly == [t \in Tips |-> IF t = 8 THEN Up ELSE Down]
PosePinkyLevel == [t \in Tips |-> IF t = 20 THEN Level ELSE Down]
PoseMiddleLevel == [t \in Tips |-> IF t = 8 THEN Up ELSE IF t = 12 THEN Level ELSE Down]
Poses == {PoseFist, PoseSeal, PoseOpen, PoseIndexOnly, PosePinkyLevel, PoseMiddleLevel}

\* wrist positions: the first hand's wrist is at Wrist1; the second hand's
\* wrist is at distance 0.10, exactly 0.15, just above 0.15 (with |dx| and
\* |dy| both below 0.15), exactly 0.30, and above 0.30 (with |dx| and |dy|
\* both below 0.30)
Wrist1 == <<40, 50>>
Wrists2 == {<<50, 50>>, <<49, 62>>, <<51, 61>>, <<58, 74>>, <<62, 72>>}

Hand(w, pose) ==
    [i \in LandmarkIdx |->
        IF i = WRIST THEN [x |-> w[1], y |-> w[2]]
        ELSE IF i \in Pips THEN [x |-> w[1], y |-> PipY]
        ELSE [x |-> w[1], y |-> pose[i]]]

Hands1 == {Hand(Wrist1, p) : p \in Poses}
Hands2 == {Hand(w, p) : w \in Wrists2, p \in Poses}

\* a Results object: multiHandLandmarks may be absent (defined = FALSE)
NoList == [defined |-> FALSE, multiHandLandmarks |-> <<>>]
WithList(lm) == [defined |-> TRUE, multiHandLandmarks |-> lm]
ResultsSet ==
    {NoList, WithList(<<>>)}
    \cup {WithList(<<h>>) : h \in Hands1}
    \cup {WithList(<<h1, h2>>) : h1 \in Hands1, h2 \in Hands2}

(**************************** classifier ***********************************)
tipUp(h, tip, pip) == h[tip].y < h[pip].y
tipDown(h, tip, pip) == h[tip].y > h[pip].y

fist(h) ==
    /\ tipDown(h, 8, 6)
    /\ tipDown(h, 12, 10)
    /\ tipDown(h, 16, 14)
    /\ tipDown(h, 20, 18)

ready(h) == tipUp(h, 8, 6) /\ tipUp(h, 12, 10)

\* dx*dx + dy*dy of the two wrists (the square of `dist`)
dist2(h1, h2) ==
    LET dx == h1[WRIST].x - h2[WRIST].x
        dy == h1[WRIST].y - h2[WRIST].y
    IN dx * dx + dy * dy

\* Classify with the wrist-distance rule evaluated before the fist rule
Classify_DistFirst(r) ==
    LET lm == r.multiHandLandmarks IN
    IF ~r.defined \/ Len(lm) < 2 THEN "idle"
    ELSE LET h1 == lm[1]
             h2 == lm[2]
         IN IF dist2(h1, h2) > FarThreshold * FarThreshold THEN "far"
            ELSE IF fist(h1) /\ fist(h2) THEN "fist"
            ELSE IF /\ dist2(h1, h2) <= ActiveThreshold * ActiveThreshold
                    /\ ready(h1) /\ ready(h2)
                 THEN "active"
                 ELSE "near"

\* Classify that accepts a single hand and uses it as both hands
Classify_OneHand(r) ==
    LET lm == r.multiHandLandmarks IN
    IF ~r.defined \/ Len(lm) < 1 THEN "idle"
    ELSE LET h1 == lm[1]
             h2 == lm[Len(lm)]
         IN IF fist(h1) /\ fist(h2) THEN "fist"
            ELSE IF dist2(h1, h2) > FarThreshold * FarThreshold THEN "far"
            ELSE IF /\ dist2(h1, h2) <= ActiveThreshold * ActiveThreshold
                    /\ ready(h1) /\ ready(h2)
                 THEN "active"
                 ELSE "near"

\* Classify with the ready rule evaluated before the far rule
Classify_ReadyFirst(r) ==
    LET lm == r.multiHandLandmarks IN
    IF ~r.defined \/ Len(lm) < 2 THEN "idle"
    ELSE LET h1 == lm[1]
             h2 == lm[2]
         IN IF fist(h1) /\ fist(h2) THEN "fist"
            ELSE IF ready(h1) /\ ready(h2)
                 THEN (IF dist2(h1, h2) <= ActiveThreshold * ActiveThreshold
                       THEN "active" ELSE "near")
            ELSE IF dist2(h1, h2) > FarThreshold * FarThreshold THEN "far"
            ELSE "near"

\* Classify with a strict comparison against the active threshold
Classify_StrictActive(r) ==
    LET lm == r.multiHandLandmarks IN
    IF ~r.defined \/ Len(lm) < 2 THEN "idle"
    ELSE LET h1 == lm[1]
             h2 == lm[2]
         IN IF fist(h1) /\ fist(h2) THEN "fist"
            ELSE IF dist2(h1, h2) > FarThreshold * FarThreshold THEN "far"
            ELSE IF /\ dist2(h1, h2) < ActiveThreshold * ActiveThreshold
                    /\ ready(h1) /\ ready(h2)
                 THEN "active"
                 ELSE "near"

\* the status hands.onResults passes to emit for the result r
Classify(r) ==
    LET lm == r.multiHandLandmarks IN
    IF ~r.defined \/ Len(lm) < 2 THEN "idle"
    ELSE LET h1 == lm[1]
             h2 == lm[2]
         IN IF fist(h1) /\ fist(h2) THEN "fist"
            ELSE IF dist2(h1, h2) > FarThreshold * FarThreshold THEN "far"
            ELSE IF /\ dist2(h1, h2) <= ActiveThreshold * ActiveThreshold
                    /\ ready(h1) /\ ready(h2)
                 THEN "active"
                 ELSE "near"

(***************************** sequencer ***********************************)
seqVars == <<jutsuRef, jutsuActive, cloneCount, intervals, nextIv>>

\* reset that leaves the clone count as it is
reset_KeepCount ==
    /\ jutsuRef' = FALSE
    /\ jutsuActive' = FALSE
    /\ UNCHANGED <<cloneCount, intervals, nextIv>>

\* page.tsx reset()
reset ==
    /\ jutsuRef' = FALSE
    /\ jutsuActive' = FALSE
    /\ cloneCount' = 0
    /\ UNCHANGED <<intervals, nextIv>>

\* the body of `if (s === "active" && !jutsuRef.current)`
startSession ==
    /\ nextIv <= MaxSessions
    /\ jutsuRef' = TRUE
    /\ jutsuActive' = TRUE
    /\ intervals' = [iv \in DOMAIN intervals \cup {nextIv} |->
                        IF iv = nextIv THEN 0 ELSE intervals[iv]]
    /\ nextIv' = nextIv + 1
    /\ UNCHANGED cloneCount

\* onStatus that starts a session on every delivery of active
onStatus_NoGuard(s) ==
    /\ calls' = calls + 1
    /\ handStatus' = s
    /\ IF s = "active" THEN startSession
       ELSE IF s = "fist" /\ jutsuRef THEN reset
       ELSE UNCHANGED seqVars

\* onStatus that ends the session on every status other than active
onStatus_AnyResets(s) ==
    /\ calls' = calls + 1
    /\ handStatus' = s
    /\ IF s = "active" /\ ~jutsuRef THEN startSession
       ELSE IF s # "active" /\ jutsuRef THEN reset
       ELSE UNCHANGED seqVars

\* page.tsx onStatus(s)
onStatus(s) ==
    /\ calls' = calls + 1
    /\ handStatus' = s
    /\ IF s = "active" /\ ~jutsuRef THEN startSession
       ELSE IF s = "fist" /\ jutsuRef THEN reset
       ELSE UNCHANGED seqVars

\* emit without the comparison against the previous status
emit_NoCheck(s) == prevStatusRef' = s /\ onStatus(s)

\* HandDetector emit(s)
emit(s) ==
    IF s # prevStatusRef
    THEN prevStatusRef' = s /\ onStatus(s)
    ELSE UNCHANGED <<prevStatusRef, handStatus, calls>> /\ UNCHANGED seqVars

(****************************** actions ************************************)
\* hands.onResults callback: onResultsRef.current(r) is setResults(r)
OnResults(r) ==
    /\ camera = "started"
    /\ hands = "open"
    /\ calls < MaxCalls
    /\ results' = <<r>>
    /\ emit(Classify(r))
    /\ UNCHANGED <<compVars, loadVars, gameVars>>

\* interval callback that never clears its timer at the maximum
IntervalFire_NoClear(iv) ==
    /\ iv \in DOMAIN intervals
    /\ LET count == intervals[iv] + CloneStep IN
        /\ cloneCount' = IF mounted THEN count ELSE cloneCount
        /\ intervals' = [intervals EXCEPT ![iv] = count]
    /\ UNCHANGED <<results, prevStatusRef, handStatus, jutsuRef, jutsuActive,
                   nextIv, calls>>
    /\ UNCHANGED <<compVars, loadVars, gameVars>>

\* one firing of the interval callback of timer iv; setCloneCount has no
\* effect once the page is unmounted
IntervalFire(iv) ==
    /\ iv \in DOMAIN intervals
    /\ LET count == intervals[iv] + CloneStep IN
        /\ cloneCount' = IF mounted THEN count ELSE cloneCount
        /\ intervals' = IF count >= CloneMax
                        THEN [j \in DOMAIN intervals \ {iv} |-> intervals[j]]
                        ELSE [intervals EXCEPT ![iv] = count]
    /\ UNCHANGED <<results, prevStatusRef, handStatus, jutsuRef, jutsuActive,
                   nextIv, calls>>
    /\ UNCHANGED <<compVars, loadVars, gameVars>>


(***************************** compositor **********************************)
Variants == {"panel", "seg"}

\* viewport sizes <<innerWidth, innerHeight>>
Viewports == {<<1280, 720>>, <<800, 600>>}
Min(a, b) == IF a < b THEN a ELSE b

\* flashRef.current *= 0.85 (panel source) or 0.82 (seg source), in millionths
FlashDecay(v) == IF v = "panel" THEN 85 ELSE 82

\* the value of Math.floor(x / 0) for x > 0, outside the integers a width takes
Infinity == -1

NoLayout == [totalPanels |-> 0, visiblePanels |-> 0, clonePanels |-> 0,
             leftClones |-> 0, rightClones |-> 0, mainWidth |-> 0, cloneWidth |-> 0]

\* the panel layout without the cap on the visible panels
PanelLayout_NoVisibleCap(count, W) ==
    LET totalPanels == Min(count, PanelCap) + 1
        visiblePanels == totalPanels
        mainWidth == (W * MainWidthPercent) \div 100
        remainingWidth == W - mainWidth - PanelGap * (visiblePanels - 1)
        clonePanels == visiblePanels - 1
    IN [totalPanels |-> totalPanels,
        visiblePanels |-> visiblePanels,
        clonePanels |-> clonePanels,
        leftClones |-> (clonePanels + 1) \div 2,
        rightClones |-> clonePanels \div 2,
        mainWidth |-> mainWidth,
        cloneWidth |-> IF visiblePanels - 1 = 0 THEN Infinity
                       ELSE remainingWidth \div (visiblePanels - 1)]

\* the panel counts and widths of the panel source's jutsu branch on a canvas
\* of width W; Math.floor(W * 0.42) equals (W * 42) \div 100 for every W up
\* to 5000; a division by zero gives Infinity in the program
PanelLayout(count, W) ==
    LET totalPanels == Min(count, PanelCap) + 1
        visiblePanels == Min(totalPanels, MaxVisiblePanels)
        mainWidth == (W * MainWidthPercent) \div 100
        remainingWidth == W - mainWidth - PanelGap * (visiblePanels - 1)
        clonePanels == visiblePanels - 1
    IN [totalPanels |-> totalPanels,
        visiblePanels |-> visiblePanels,
        clonePanels |-> clonePanels,
        leftClones |-> (clonePanels + 1) \div 2,
        rightClones |-> clonePanels \div 2,
        mainWidth |-> mainWidth,
        cloneWidth |-> IF visiblePanels - 1 = 0 THEN Infinity
                       ELSE remainingWidth \div (visiblePanels - 1)]

\* drawCover anchoring the crop at the top left corner of the source
DrawCover_NoCenter(vw, vh, dx, dy, dw, dh) ==
    LET call == [vw |-> vw, vh |-> vh, dx |-> dx, dy |-> dy, dw |-> dw, dh |-> dh,
                 drawn |-> FALSE, sx |-> 0, sy |-> 0, sw |-> 0, sh |-> 0, den |-> 1]
    IN IF vw = 0 \/ vh = 0
       THEN call
       ELSE IF dw * vh > vw * dh
       THEN [call EXCEPT !.drawn = TRUE,
                         !.sw = 2 * vw * dw, !.sh = 2 * vw * dh, !.den = 2 * dw]
       ELSE [call EXCEPT !.drawn = TRUE,
                         !.sw = 2 * vh * dw, !.sh = 2 * vh * dh, !.den = 2 * dh]

\* drawCover(ctx, vid, dx, dy, dw, dh) for a video vw wide and vh high: the
\* destination rectangle and the source crop handed to drawImage.  The crop
\* is exact: sx, sy, sw, sh are numerators over the denominator den.  The
\* comparison destAspect > vidAspect is dw / dh > vw / vh with dh, vh > 0.
DrawCover(vw, vh, dx, dy, dw, dh) ==
    LET call == [vw |-> vw, vh |-> vh, dx |-> dx, dy |-> dy, dw |-> dw, dh |-> dh,
                 drawn |-> FALSE, sx |-> 0, sy |-> 0, sw |-> 0, sh |-> 0, den |-> 1]
    IN IF vw = 0 \/ vh = 0
       THEN call
       ELSE IF dw * vh > vw * dh
       THEN [call EXCEPT !.drawn = TRUE, !.sx = 0, !.sy = vh * dw - vw * dh,
                         !.sw = 2 * vw * dw, !.sh = 2 * vw * dh, !.den = 2 * dw]
       ELSE [call EXCEPT !.drawn = TRUE, !.sx = vw * dh - vh * dw, !.sy = 0,
                         !.sw = 2 * vh * dw, !.sh = 2 * vh * dh, !.den = 2 * dh]

\* the jutsu branch placing the main panel after the left clones without
\* their gaps
PanelImages_MainNoGap(layout, W, H) ==
    LET pitch == layout.cloneWidth + PanelGap
        left == [i \in 1..layout.leftClones |->
                    DrawCover(video[1], video[2],
                              (layout.leftClones - i) * pitch, 0,
                              layout.cloneWidth, H)]
        right == [i \in 1..layout.rightClones |->
                    DrawCover(video[1], video[2],
                              W - i * pitch + PanelGap, 0,
                              layout.cloneWidth, H)]
    IN left \o right
       \o <<DrawCover(video[1], video[2], layout.leftClones * layout.cloneWidth, 0,
                      layout.mainWidth, H)>>

\* the drawCover calls of the jutsu branch of the panel source, in the order
\* of the code: the left clones, the right clones, the main panel
PanelImages(layout, W, H) ==
    LET pitch == layout.cloneWidth + PanelGap
        left == [i \in 1..layout.leftClones |->
                    DrawCover(video[1], video[2],
                              (layout.leftClones - i) * pitch, 0,
                              layout.cloneWidth, H)]
        right == [i \in 1..layout.rightClones |->
                    DrawCover(video[1], video[2],
                              W - i * pitch + PanelGap, 0,
                              layout.cloneWidth, H)]
    IN left \o right
       \o <<DrawCover(video[1], video[2], layout.leftClones * pitch, 0,
                      layout.mainWidth, H)>>

\* the drawCover calls of one frame: the panels in panel mode; else the full
\* video, and in the seg source the person layer when the cutouts are drawn
Images(frame, W, H) ==
    IF frame.mode = "panel"
    THEN PanelImages(frame.layout, W, H)
    ELSE IF frame.mode = "seg"
    THEN <<DrawCover(video[1], video[2], 0, 0, W, H),
           DrawCover(video[1], video[2], 0, 0, W, H)>>
    ELSE <<DrawCover(video[1], video[2], 0, 0, W, H)>>

Blank ==
    [mode |-> "none", prevMode |-> "none", layout |-> NoLayout, cutouts |-> 0,
     smoke |-> 0, flash |-> 0, skeleton |-> FALSE, images |-> <<>>]

\* the panel source entering the jutsu branch whenever the session is active
PanelFrame_NoCountCheck(W) ==
    IF ~activeRef
    THEN [mode |-> "idle", prevMode |-> canvas.mode, layout |-> NoLayout,
          cutouts |-> 0, smoke |-> 0,
          flash |-> 0, skeleton |-> FALSE, images |-> <<>>]
    ELSE [mode |-> "panel", prevMode |-> canvas.mode,
          layout |-> PanelLayout(countRef, W), cutouts |-> 0, smoke |-> 0,
          flash |-> 0, skeleton |-> FALSE, images |-> <<>>]

\* the canvas of width W after the drawing part of draw() in the panel source
PanelFrame(W) ==
    IF ~activeRef \/ countRef = 0
    THEN [mode |-> "idle", prevMode |-> canvas.mode, layout |-> NoLayout,
          cutouts |-> 0, smoke |-> 0,
          flash |-> 0, skeleton |-> FALSE, images |-> <<>>]
    ELSE [mode |-> "panel", prevMode |-> canvas.mode,
          layout |-> PanelLayout(countRef, W), cutouts |-> 0, smoke |-> 0,
          flash |-> 0, skeleton |-> FALSE, images |-> <<>>]

\* the seg source stamping the cutouts without looking at the mask
SegFrame_NoMaskCheck ==
    IF activeRef /\ countRef > 0
    THEN [mode |-> "seg", prevMode |-> canvas.mode, layout |-> NoLayout,
          cutouts |-> Min(countRef, CutoutCap), smoke |-> 0,
          flash |-> 0, skeleton |-> FALSE, images |-> <<>>]
    ELSE [mode |-> "idle", prevMode |-> canvas.mode, layout |-> NoLayout,
          cutouts |-> 0, smoke |-> 0,
          flash |-> 0, skeleton |-> FALSE, images |-> <<>>]

\* the seg source falling back to the panel layout while no mask is stored
SegFrame_PanelFallback ==
    IF activeRef /\ countRef > 0 /\ maskRef # 0
    THEN [mode |-> "seg", prevMode |-> canvas.mode, layout |-> NoLayout,
          cutouts |-> Min(countRef, CutoutCap), smoke |-> 0,
          flash |-> 0, skeleton |-> FALSE, images |-> <<>>]
    ELSE IF activeRef /\ countRef > 0
    THEN [mode |-> "panel", prevMode |-> canvas.mode,
          layout |-> PanelLayout(countRef, size[1]), cutouts |-> 0, smoke |-> 0,
          flash |-> 0, skeleton |-> FALSE, images |-> <<>>]
    ELSE [mode |-> "idle", prevMode |-> canvas.mode, layout |-> NoLayout,
          cutouts |-> 0, smoke |-> 0,
          flash |-> 0, skeleton |-> FALSE, images |-> <<>>]

\* the canvas after the drawing part of draw() in the seg source: the full
\* frame, plus the person cutouts when active, count > 0 and a mask is stored
SegFrame ==
    IF activeRef /\ countRef > 0 /\ maskRef # 0
    THEN [mode |-> "seg", prevMode |-> canvas.mode, layout |-> NoLayout,
          cutouts |-> Min(countRef, CutoutCap), smoke |-> 0,
          flash |-> 0, skeleton |-> FALSE, images |-> <<>>]
    ELSE [mode |-> "idle", prevMode |-> canvas.mode, layout |-> NoLayout,
          cutouts |-> 0, smoke |-> 0,
          flash |-> 0, skeleton |-> FALSE, images |-> <<>>]

\* the integration step leaving the life of the particle as it is
StepSmoke_NoDecay(p) ==
    [p EXCEPT !.x = p.x + p.vx, !.y = p.y + p.vy, !.r = p.r + SmokeGrowth]

\* one particle after the integration step of draw()
StepSmoke(p) ==
    [p EXCEPT !.x = p.x + p.vx, !.y = p.y + p.vy,
              !.life = p.life - SmokeDecay, !.r = p.r + SmokeGrowth]

Alive(p) == p.life > 0

\* the smoke loop integrating every particle and splicing none out
StepSmokes_NoSplice(list) ==
    [i \in 1..Len(list) |-> StepSmoke(list[i])]

\* the particle list after the smoke loop of draw(): every particle is
\* integrated, those whose life is then <= 0 are spliced out
StepSmokes(list) ==
    SelectSeq([i \in 1..Len(list) |-> StepSmoke(list[i])], Alive)

\* a frame is sent to the segmentation model
SegSend ==
    /\ segBusyRef' = TRUE
    /\ segInFlight' = segInFlight + 1

\* res?.multiHandLandmarks is truthy: a result is stored and carries a list
LandmarksPresent == Len(resultsRef) = 1 /\ resultsRef[1].defined

\* both sources overlaying the skeleton only while the session is not active
SkeletonDrawn_InactiveOnly == ~activeRef /\ LandmarksPresent

\* draw() overlays the hand skeleton: inside the idle branch in the panel
\* source, under its own test of the active flag in the seg source
SkeletonDrawn ==
    IF variant = "panel"
    THEN (~activeRef \/ countRef = 0) /\ LandmarksPresent
    ELSE ~activeRef /\ LandmarksPresent

\* the globalAlpha of the flash overlay draw() paints, 0 when it paints none
FlashDrawn == IF flashRef > FlashThreshold THEN flashRef ELSE 0

\* the flash fading on every draw, whatever the alpha
FlashStep_NoThreshold ==
    flashRef' = (flashRef * FlashDecay(variant)) \div 100

\* the flash overlay step at the end of draw()
FlashStep ==
    flashRef' = IF flashRef > FlashThreshold
                THEN (flashRef * FlashDecay(variant)) \div 100
                ELSE flashRef

\* draw() sending a frame without looking at the busy flag
DrawBody_NoBusyCheck(W, H) ==
    /\ IF variant = "seg" /\ activeRef /\ segRef
       THEN SegSend
       ELSE UNCHANGED <<segBusyRef, segInFlight>>
    /\ smokes' = IF variant = "panel" THEN smokes ELSE StepSmokes(smokes)
    /\ LET frame == IF variant = "panel" THEN PanelFrame(W)
                     ELSE [SegFrame EXCEPT !.smoke = Len(StepSmokes(smokes))]
       IN canvas' = [frame EXCEPT !.flash = FlashDrawn, !.skeleton = SkeletonDrawn,
                                  !.images = Images(frame, W, H)]
    /\ FlashStep

\* draw() past the video check, on a canvas of width W and height H
DrawBody(W, H) ==
    /\ IF variant = "seg" /\ activeRef /\ segRef /\ ~segBusyRef
       THEN SegSend
       ELSE UNCHANGED <<segBusyRef, segInFlight>>
    /\ smokes' = IF variant = "panel" THEN smokes ELSE StepSmokes(smokes)
    /\ LET frame == IF variant = "panel" THEN PanelFrame(W)
                     ELSE [SegFrame EXCEPT !.smoke = Len(StepSmokes(smokes))]
       IN canvas' = [frame EXCEPT !.flash = FlashDrawn, !.skeleton = SkeletonDrawn,
                                  !.images = Images(frame, W, H)]
    /\ FlashStep

\* raf = requestAnimationFrame(draw), with `pending` callbacks pending before
RequestFrame(pending) ==
    /\ rafPending' = TRUE
    /\ pendingRafs' = pending + 1

\* draw() without the check of the video element
Draw_NoVideoCheck(pending, cv, W, H) ==
    /\ lastDraw' = "drawn"
    /\ DrawBody(W, H)
    /\ RequestFrame(pending)

\* one execution of draw() on a canvas holding cv, W wide and H high, with `pending`
\* callbacks pending when it starts
Draw(pending, cv, W, H) ==
    /\ IF ~videoReady
       THEN /\ lastDraw' = "skipped"
            /\ canvas' = cv
            /\ UNCHANGED <<flashRef, segBusyRef, segInFlight, smokes>>
       ELSE /\ lastDraw' = "drawn"
            /\ DrawBody(W, H)
    /\ RequestFrame(pending)

\* the number of pending callbacks after cancelAnimationFrame(raf)
AfterCancel == IF rafPending THEN pendingRafs - 1 ELSE pendingRafs

\* the browser runs one pending animation-frame callback
Tick ==
    /\ pendingRafs > 0
    /\ Draw(pendingRafs - 1, canvas, size[1], size[2])
    /\ UNCHANGED <<propVars, size>>
    /\ UNCHANGED <<pageVars, loadVars, gameVars>>

\* the cloneCount effect of the seg source pushing a burst on every nonzero
\* count it observes
SpawnSmoke_EveryCount(burst) ==
    smokes' = IF variant = "seg" /\ cloneCount # countRef /\ cloneCount > 0
              THEN smokes \o burst ELSE smokes

\* the cloneCount effect of the seg source calls spawnSmokeBurst where it
\* sets the flash: the count is nonzero and the remembered count is 0
SpawnSmoke(burst) ==
    smokes' = IF variant = "seg" /\ cloneCount # countRef /\ cloneCount > 0
                 /\ prevCountRef = 0
              THEN smokes \o burst ELSE smokes

\* Commit whose jutsuActive effect also drops the stored mask on deactivation
Commit_ClearsMask(burst) ==
    /\ mounted
    /\ <<jutsuActive, cloneCount, handStatus, results>>
         # <<activeRef, countRef, statusRef, resultsRef>>
    /\ LET jaChanged == jutsuActive # activeRef
           ccChanged == cloneCount # countRef
           flash1 == IF ccChanged /\ cloneCount > 0 /\ prevCountRef = 0
                     THEN FlashOne ELSE flashRef
           prev1 == IF ccChanged THEN cloneCount ELSE prevCountRef
       IN /\ activeRef' = jutsuActive
          /\ countRef' = cloneCount
          /\ statusRef' = handStatus
          /\ resultsRef' = results
          /\ flashRef' = IF jaChanged /\ ~jutsuActive THEN 0 ELSE flash1
          /\ prevCountRef' = IF jaChanged /\ ~jutsuActive THEN 0 ELSE prev1
          /\ SpawnSmoke(burst)
    /\ maskRef' = (IF jutsuActive # activeRef /\ ~jutsuActive THEN 0 ELSE maskRef)
    /\ UNCHANGED <<variant, segRef, segBusyRef, segInFlight, videoReady, video,
                   mounted, size, lastDraw, rafPending, pendingRafs, canvas>>
    /\ UNCHANGED <<pageVars, loadVars, gameVars>>

\* React re-renders CloneEffect with the current Home state and runs the
\* effects whose dependency changed, in source order; `burst` is the list of
\* particles spawnSmokeBurst pushes if it is called
Commit(burst) ==
    /\ mounted
    /\ <<jutsuActive, cloneCount, handStatus, results>>
         # <<activeRef, countRef, statusRef, resultsRef>>
    /\ LET jaChanged == jutsuActive # activeRef
           ccChanged == cloneCount # countRef
           flash1 == IF ccChanged /\ cloneCount > 0 /\ prevCountRef = 0
                     THEN FlashOne ELSE flashRef
           prev1 == IF ccChanged THEN cloneCount ELSE prevCountRef
       IN /\ activeRef' = jutsuActive
          /\ countRef' = cloneCount
          /\ statusRef' = handStatus
          /\ resultsRef' = results
          /\ flashRef' = IF jaChanged /\ ~jutsuActive THEN 0 ELSE flash1
          /\ prevCountRef' = IF jaChanged /\ ~jutsuActive THEN 0 ELSE prev1
          /\ SpawnSmoke(burst)
    /\ UNCHANGED <<variant, segRef, maskRef, segBusyRef, segInFlight, videoReady, video,
                   mounted, size, lastDraw, rafPending, pendingRafs, canvas>>
    /\ UNCHANGED <<pageVars, loadVars, gameVars>>

\* the dynamic import of the segmentation model resolves while mounted
SegLoaded ==
    /\ variant = "seg" /\ mounted /\ segLoad = "loading"
    /\ segRef' = TRUE
    /\ segLoad' = "ready"
    /\ UNCHANGED <<variant, activeRef, countRef, statusRef, resultsRef, prevCountRef,
                   flashRef, maskRef, segBusyRef, segInFlight, videoReady, video,
                   mounted, size, lastDraw, rafPending, pendingRafs, canvas, smokes>>
    /\ UNCHANGED <<pageVars, detector, hands, camera, unhandled>>
    /\ UNCHANGED gameVars

\* the dynamic import of the segmentation model rejects: the async function
\* of the init effect has no try/catch and its promise is dropped
SegLoadFailed ==
    /\ variant = "seg" /\ segLoad = "loading"
    /\ segLoad' = "failed"
    /\ unhandled' = unhandled + 1
    /\ UNCHANGED <<detector, hands, camera, pageVars, compVars>>
    /\ UNCHANGED gameVars

\* HandsLoaded that does not test `alive`
HandsLoaded_NoAliveCheck ==
    /\ detector = "loading"
    /\ detector' = "ready" /\ hands' = "open" /\ camera' = "started"
    /\ UNCHANGED <<segLoad, unhandled, pageVars, compVars>>
    /\ UNCHANGED gameVars

\* the dynamic imports of the HandDetector init effect resolve: while the
\* component is mounted (`alive`, which only the cleanup clears) the detector
\* is created and the camera loop started, else the function returns
HandsLoaded ==
    /\ detector = "loading"
    /\ IF mounted
       THEN detector' = "ready" /\ hands' = "open" /\ camera' = "started"
       ELSE detector' = "cancelled" /\ UNCHANGED <<hands, camera>>
    /\ UNCHANGED <<segLoad, unhandled, pageVars, compVars>>
    /\ UNCHANGED gameVars

\* a dynamic import of the HandDetector init effect rejects: the async
\* function has no try/catch and its promise is dropped
HandsLoadFailed ==
    /\ detector = "loading"
    /\ detector' = "failed"
    /\ unhandled' = unhandled + 1
    /\ UNCHANGED <<hands, camera, segLoad, pageVars, compVars>>
    /\ UNCHANGED gameVars

\* seg.onResults: the model answers one frame in flight
SegResult ==
    /\ segInFlight > 0
    /\ maskRef' = nextIv - 1
    /\ segBusyRef' = FALSE
    /\ segInFlight' = segInFlight - 1
    /\ UNCHANGED <<variant, activeRef, countRef, statusRef, resultsRef, prevCountRef,
                   flashRef, segRef, videoReady, video, mounted, size, lastDraw,
                   rafPending, pendingRafs,
                   canvas, smokes>>
    /\ UNCHANGED <<pageVars, loadVars, gameVars>>

\* the camera video becomes decodable, or stops being so
VideoChange ==
    /\ videoReady' = ~videoReady
    /\ UNCHANGED <<video, variant, activeRef, countRef, statusRef, resultsRef,
                   prevCountRef,
                   flashRef, segRef, maskRef, segBusyRef, segInFlight,
                   mounted, size, lastDraw, rafPending, pendingRafs, canvas, smokes>>
    /\ UNCHANGED <<pageVars, loadVars, gameVars>>

\* a resize whose effect cleanup does not cancel the pending callback
Resize_NoCancel(sz) ==
    /\ mounted
    /\ size' = sz
    /\ Draw(pendingRafs,
            IF sz = size THEN canvas ELSE [Blank EXCEPT !.prevMode = canvas.mode],
            sz[1], sz[2])
    /\ UNCHANGED propVars
    /\ UNCHANGED <<pageVars, loadVars, gameVars>>

\* a resize event with viewport sz: setSize re-renders with a new size object,
\* a canvas whose dimensions change is cleared, the render-loop effect is
\* cleaned up (cancelAnimationFrame) and run again (draw() is called)
Resize(sz) ==
    /\ mounted
    /\ size' = sz
    /\ Draw(AfterCancel,
            IF sz = size THEN canvas ELSE [Blank EXCEPT !.prevMode = canvas.mode],
            sz[1], sz[2])
    /\ UNCHANGED propVars
    /\ UNCHANGED <<pageVars, loadVars, gameVars>>

\* the page is torn down: the render-loop cleanup of CloneEffect runs, and the
\* cleanup of the HandDetector init effect clears `alive`, stops the camera
\* loop and closes the detector if they exist
Unmount ==
    /\ mounted
    /\ mounted' = FALSE
    /\ pendingRafs' = AfterCancel
    /\ rafPending' = FALSE
    /\ UNCHANGED <<size, lastDraw>>
    /\ UNCHANGED <<variant, activeRef, countRef, statusRef, resultsRef, prevCountRef,
                   flashRef, segRef, maskRef, segBusyRef, segInFlight, videoReady, video,
                   canvas, smokes>>
    /\ camera' = (IF camera = "started" THEN "stopped" ELSE camera)
    /\ hands' = (IF hands = "open" THEN "closed" ELSE hands)
    /\ UNCHANGED <<pageVars, detector, segLoad, unhandled>>
    /\ UNCHANGED gameVars

\* the camera is asked for a 1280 x 720 video
CameraSize == <<1280, 720>>

\* the state after CloneEffect has mounted with the initial props: the
\* effects have copied the props and draw() has run once without a video;
\* the panel source has no segmentation model; hasFrame tells whether the
\* webcam video has got a frame to decode since that first draw
CompMounted(v, hasFrame) ==
    /\ variant = v
    /\ segLoad = (IF v = "seg" THEN "loading" ELSE "absent")
    /\ activeRef = FALSE
    /\ countRef = 0
    /\ statusRef = "idle"
    /\ resultsRef = <<>>
    /\ prevCountRef = 0
    /\ flashRef = 0
    /\ segRef = FALSE
    /\ maskRef = 0
    /\ segBusyRef = FALSE
    /\ segInFlight = 0
    /\ videoReady = hasFrame
    /\ video = CameraSize
    /\ mounted = TRUE
    /\ size = <<1280, 720>>
    /\ lastDraw = "skipped"
    /\ rafPending = TRUE
    /\ pendingRafs = 1
    /\ canvas = Blank
    /\ smokes = <<>>

\* the video element has no frame when the component mounts
CompInit(v) == CompMounted(v, FALSE)

(****************************** mini-game **********************************)
\* GameCanvas (fruit-ninja): positions are in hundredths of a pixel and
\* velocities in hundredths of a pixel per tick, so gravity 0.08 is 8 and
\* launch power 10 is 1000; sounds, particles, floating texts, the combo
\* counter, the screen shake and the drawing itself are left out
DIFFICULTY_PRESETS ==
    [easy |-> [spawnRate |-> 150, gravity |-> 6, launchPower |-> 800, lives |-> 5],
     medium |-> [spawnRate |-> 100, gravity |-> 8, launchPower |-> 1000, lives |-> 3],
     hard |-> [spawnRate |-> 60, gravity |-> 12, launchPower |-> 1400, lives |-> 2]]
PresetNames == {"easy", "medium", "hard"}

\* sampled slider values, each the end of its slider's range: gravity 0.20
\* and 1 life (the sliders of spawnRate and launchPower have the same handler)
SliderSamples == {<<"gravity", 20>>, <<"lives", 1>>}

\* window sizes <<innerWidth, innerHeight>> of the game
GameViewports == {<<800, 600>>, <<800, 100>>}

\* the finger prop: <<>> is null, else normalized <<x, y>> in hundredths
NoFinger == <<>>
FingerSamples == {<<50, 50>>}

\* sampled outcomes of the Math.random() calls of spawnFruit: x in pixels
\* hundredths, the random part of vx ((Math.random() - 0.5) * 3), the random
\* part of vy (Math.random() * 4), and whether the fruit is a bomb
SpawnSamples ==
    {[x |-> 40000, vxRand |-> 0, vyRand |-> 0, bomb |-> FALSE],
     [x |-> 40000, vxRand |-> 0, vyRand |-> 0, bomb |-> TRUE],
     [x |-> 10000, vxRand |-> -150, vyRand |-> 0, bomb |-> FALSE]}

SpawnOffset == 5000
ExitMargin == 10000
SliceRadius == 8000
SlicePoints == 10
\* a sliced fruit gets vy = -8 and vx = Math.random() * 10 - 5, sampled as 0
SlicedVy == -800
SlicedVx == 0
TrailLife == 100
TrailDecay == 12

\* the state after GameCanvas has mounted: the game loop effect ran once and
\* its update closure holds the settings of the first render
GameInit ==
    /\ settings = DIFFICULTY_PRESETS.medium
    /\ showSettings = FALSE
    /\ loopSettings = DIFFICULTY_PRESETS.medium
    /\ stateRef = "start"
    /\ uiState = "start"
    /\ scoreRef = 0
    /\ livesRef = 3
    /\ fruitsRef = <<>>
    /\ trailRef = <<>>
    /\ frameRef = 0
    /\ fingerRef = NoFinger
    /\ canvasSize = <<800, 600>>

\* the button that opens the settings panel, on the start screen
OpenSettings ==
    /\ uiState = "start" /\ ~showSettings
    /\ showSettings' = TRUE
    /\ UNCHANGED <<settings, loopSettings, stateRef, uiState, scoreRef, livesRef,
                   fruitsRef, trailRef, frameRef, fingerRef, canvasSize>>
    /\ UNCHANGED <<pageVars, compVars, loadVars>>

\* the close button of the settings panel
CloseSettings ==
    /\ uiState = "start" /\ showSettings
    /\ showSettings' = FALSE
    /\ UNCHANGED <<settings, loopSettings, stateRef, uiState, scoreRef, livesRef,
                   fruitsRef, trailRef, frameRef, fingerRef, canvasSize>>
    /\ UNCHANGED <<pageVars, compVars, loadVars>>

\* a difficulty button of the settings panel: setSettings(preset)
SetPreset(name) ==
    /\ uiState = "start" /\ showSettings
    /\ settings' = DIFFICULTY_PRESETS[name]
    /\ UNCHANGED <<showSettings, loopSettings, stateRef, uiState, scoreRef, livesRef,
                   fruitsRef, trailRef, frameRef, fingerRef, canvasSize>>
    /\ UNCHANGED <<pageVars, compVars, loadVars>>

\* a slider of the settings panel: setSettings({ ...settings, [field]: value })
SetSlider(field, value) ==
    /\ uiState = "start" /\ showSettings
    /\ settings' = [settings EXCEPT ![field] = value]
    /\ UNCHANGED <<showSettings, loopSettings, stateRef, uiState, scoreRef, livesRef,
                   fruitsRef, trailRef, frameRef, fingerRef, canvasSize>>
    /\ UNCHANGED <<pageVars, compVars, loadVars>>

\* the finger prop changes and its effect copies it to fingerRef
SetFinger(p) ==
    /\ fingerRef' = p
    /\ UNCHANGED <<settings, showSettings, loopSettings, stateRef, uiState, scoreRef,
                   livesRef, fruitsRef, trailRef, frameRef, canvasSize>>
    /\ UNCHANGED <<pageVars, compVars, loadVars>>

\* the window resize listener: the canvas takes the window's size
resize(sz) ==
    /\ canvasSize' = sz
    /\ UNCHANGED <<settings, showSettings, loopSettings, stateRef, uiState, scoreRef,
                   livesRef, fruitsRef, trailRef, frameRef, fingerRef>>
    /\ UNCHANGED <<pageVars, compVars, loadVars>>

\* startGame, the onClick of the start button (start screen, not covered by
\* the settings panel) and of the restart button (game-over screen); it is
\* re-created on every render and reads the current settings
startGame ==
    /\ \/ uiState = "start" /\ ~showSettings
       \/ uiState = "gameover"
    /\ stateRef' = "playing"
    /\ uiState' = "playing"
    /\ scoreRef' = 0
    /\ livesRef' = settings.lives
    /\ fruitsRef' = <<>>
    /\ UNCHANGED <<settings, showSettings, loopSettings, trailRef, frameRef,
                   fingerRef, canvasSize>>
    /\ UNCHANGED <<pageVars, compVars, loadVars>>

\* spawnFruit(w, h) with the random outcomes s, as the closure of the game
\* loop calls it: set is the settings object that closure holds
spawnFruit(w, h, s, set) ==
    [x |-> s.x, y |-> h * 100 + SpawnOffset,
     vx |-> (((w * 100) \div 2 - s.x) * 5) \div 1000 + s.vxRand,
     vy |-> -(s.vyRand + set.launchPower),
     sliced |-> FALSE, bomb |-> s.bomb]

\* the trail step of update: push the finger position, age every point,
\* drop the points whose life is at or below 0
TrailAlive(p) == p.life > 0
StepTrail(trail, finger, w, h) ==
    LET pushed == IF finger = NoFinger THEN trail
                  ELSE Append(trail, [x |-> finger[1] * w, y |-> finger[2] * h,
                                      life |-> TrailLife])
    IN SelectSeq([i \in 1..Len(pushed) |->
                     [pushed[i] EXCEPT !.life = pushed[i].life - TrailDecay]],
                 TrailAlive)

Abs(n) == IF n < 0 THEN -n ELSE n
\* Math.sqrt(ddx * ddx + ddy * ddy) < 80
TipHits(f, tip) ==
    /\ Abs(f.x - tip.x) < SliceRadius
    /\ Abs(f.y - tip.y) < SliceRadius
    /\ (f.x - tip.x) * (f.x - tip.x) + (f.y - tip.y) * (f.y - tip.y)
          < SliceRadius * SliceRadius

RemoveAt(seq, i) == SubSeq(seq, 1, i - 1) \o SubSeq(seq, i + 1, Len(seq))

\* the fruit loop of update, from index i down to 1; g is [state, score,
\* lives, fruits]; the loop does not stop when the state becomes gameover
RECURSIVE FruitLoop(_, _, _, _, _)
FruitLoop(i, g, trail, h, set) ==
    IF i = 0 THEN g
    ELSE LET f0 == g.fruits[i]
             f1 == [f0 EXCEPT !.x = f0.x + f0.vx, !.y = f0.y + f0.vy,
                              !.vy = f0.vy + set.gravity]
             hit == /\ ~f1.sliced /\ Len(trail) > 2
                    /\ TipHits(f1, trail[Len(trail)])
             f2 == IF hit /\ ~f1.bomb
                   THEN [f1 EXCEPT !.sliced = TRUE, !.vx = SlicedVx, !.vy = SlicedVy]
                   ELSE f1
             score2 == IF hit /\ ~f1.bomb THEN g.score + SlicePoints ELSE g.score
             state2 == IF hit /\ f1.bomb THEN "gameover" ELSE g.state
             off == f2.y > h * 100 + ExitMargin
             lost == off /\ ~f2.sliced /\ ~f2.bomb
             lives2 == IF lost THEN g.lives - 1 ELSE g.lives
             state3 == IF lost /\ lives2 <= 0 THEN "gameover" ELSE state2
             fruits2 == IF off THEN RemoveAt(g.fruits, i)
                        ELSE [g.fruits EXCEPT ![i] = f2]
         IN FruitLoop(i - 1,
                      [state |-> state3, score |-> score2, lives |-> lives2,
                       fruits |-> fruits2],
                      trail, h, set)

\* update that runs the game block whatever the state is
update_NoStateCheck ==
    /\ trailRef' = StepTrail(trailRef, fingerRef, canvasSize[1], canvasSize[2])
    /\ IF TRUE
       THEN /\ frameRef < MaxFrames
            /\ frameRef' = frameRef + 1
            /\ \E s \in SpawnSamples :
                 LET w == canvasSize[1]
                     h == canvasSize[2]
                     spawned == IF frameRef' % loopSettings.spawnRate = 0
                                THEN Append(fruitsRef, spawnFruit(w, h, s, loopSettings))
                                ELSE fruitsRef
                     g == FruitLoop(Len(spawned),
                                    [state |-> stateRef, score |-> scoreRef,
                                     lives |-> livesRef, fruits |-> spawned],
                                    trailRef', h, loopSettings)
                 IN /\ stateRef' = g.state
                    /\ uiState' = g.state
                    /\ scoreRef' = g.score
                    /\ livesRef' = g.lives
                    /\ fruitsRef' = g.fruits
       ELSE UNCHANGED <<stateRef, uiState, scoreRef, livesRef, fruitsRef, frameRef>>
    /\ UNCHANGED <<settings, showSettings, loopSettings, fingerRef, canvasSize>>
    /\ UNCHANGED <<pageVars, compVars, loadVars>>

\* one execution of update, the animation-frame callback of the game loop;
\* the effect that created it has an empty dependency array, so it reads the
\* settings through the closure of the first render (loopSettings)
update ==
    /\ trailRef' = StepTrail(trailRef, fingerRef, canvasSize[1], canvasSize[2])
    /\ IF stateRef = "playing"
       THEN /\ frameRef < MaxFrames
            /\ frameRef' = frameRef + 1
            /\ \E s \in SpawnSamples :
                 LET w == canvasSize[1]
                     h == canvasSize[2]
                     spawned == IF frameRef' % loopSettings.spawnRate = 0
                                THEN Append(fruitsRef, spawnFruit(w, h, s, loopSettings))
                                ELSE fruitsRef
                     g == FruitLoop(Len(spawned),
                                    [state |-> stateRef, score |-> scoreRef,
                                     lives |-> livesRef, fruits |-> spawned],
                                    trailRef', h, loopSettings)
                 IN /\ stateRef' = g.state
                    /\ uiState' = g.state
                    /\ scoreRef' = g.score
                    /\ livesRef' = g.lives
                    /\ fruitsRef' = g.fruits
       ELSE UNCHANGED <<stateRef, uiState, scoreRef, livesRef, fruitsRef, frameRef>>
    /\ UNCHANGED <<settings, showSettings, loopSettings, fingerRef, canvasSize>>
    /\ UNCHANGED <<pageVars, compVars, loadVars>>

\* the classifier, sequencer and compositor as the game leaves them
HomeIdle ==
    /\ results = <<>>
    /\ prevStatusRef = "idle"
    /\ handStatus = "idle"
    /\ jutsuRef = FALSE
    /\ jutsuActive = FALSE
    /\ cloneCount = 0
    /\ intervals = <<>>
    /\ nextIv = 1
    /\ calls = 0
    /\ detector = "ready"
    /\ hands = "open"
    /\ camera = "started"
    /\ unhandled = 0

InitGame == HomeIdle /\ GameInit /\ CompInit("panel")

\* the mini-game alone in a window that keeps its size; the finger moves
\* only between games
NextGame ==
    \/ OpenSettings
    \/ CloseSettings
    \/ \E name \in PresetNames : SetPreset(name)
    \/ \E sl \in SliderSamples : SetSlider(sl[1], sl[2])
    \/ \E p \in {NoFinger} \cup FingerSamples :
          /\ stateRef # "playing"
          /\ p # fingerRef
          /\ SetFinger(p)
    \/ startGame
    \/ update

SpecGame == InitGame /\ [][NextGame]_vars

\* the mini-game in a window that changes its size at any time, without a
\* finger in the frame
NextResize ==
    \/ OpenSettings
    \/ CloseSettings
    \/ \E sl \in SliderSamples : SetSlider(sl[1], sl[2])
    \/ \E sz \in GameViewports :
          /\ sz # canvasSize
          /\ resize(sz)
    \/ startGame
    \/ update

SpecResize == InitGame /\ [][NextResize]_vars

\* the page once the hand detector has loaded its model
PageInit ==
    /\ results = <<>>
    /\ prevStatusRef = "idle"
    /\ handStatus = "idle"
    /\ jutsuRef = FALSE
    /\ jutsuActive = FALSE
    /\ cloneCount = 0
    /\ intervals = <<>>
    /\ nextIv = 1
    /\ calls = 0
    /\ detector = "ready"
    /\ hands = "open"
    /\ camera = "started"
    /\ unhandled = 0
    /\ GameInit

\* the classifier and the sequencer alone: the compositor does not run
Init == PageInit /\ CompInit("panel")

Next ==
    \/ \E r \in ResultsSet : OnResults(r)
    \/ \E iv \in 1..MaxSessions : IntervalFire(iv)

Spec == Init /\ [][Next]_vars

\* two hands at wrist distance 0.10: the seal that starts a session, and the
\* fists that end it
SealResult == WithList(<<Hand(Wrist1, PoseSeal), Hand(<<50, 50>>, PoseSeal)>>)
FistResult == WithList(<<Hand(Wrist1, PoseFist), Hand(<<50, 50>>, PoseFist)>>)

\* inputs of the specification with the compositor: the seal and the fists
ResultsComp == {SealResult, FistResult}

\* the smoke list stays empty in this specification: no other state reads it
NoBurst == {<<>>}

InitComp == PageInit /\ \E v \in Variants : CompInit(v)

NextComp ==
    \/ \E r \in ResultsComp :
          /\ calls < MaxCallsComp
          /\ OnResults(r)
    \/ \E iv \in 1..MaxCallsComp : IntervalFire(iv)
    \/ \E b \in NoBurst : Commit(b)
    \/ Tick
    \/ SegLoaded
    \/ SegResult
    \/ VideoChange
    \/ \E sz \in Viewports : Resize(sz)
    \/ Unmount

SpecComp == InitComp /\ [][NextComp]_vars

\* a particle as spawnSmokeBurst pushes it: maxLife is the initial life
Particle(x, y, vx, vy, r, life) ==
    [x |-> x, y |-> y, vx |-> vx, vy |-> vy, r |-> r, life |-> life, maxLife |-> life]

\* sampled outcomes of the Math.random() calls of spawnSmokeBurst(640, 360, 80):
\* x in [540, 740), y in [260, 460), |v| < 6, r in [10, 40), life in [0.6, 1.4)
ShortSmoke == Particle(600, 300, 3, -2, 150, LifeMin + 5)
LongSmoke == Particle(700, 420, -4, 1, 390, LifeMin + LifeSpan - 1)
SmokeSamples == {ShortSmoke, LongSmoke}

\* the bursts spawnSmokeBurst may push, cut down from 80 to BurstSize particles
Bursts == [1..BurstSize -> SmokeSamples]

\* the bursts of short-lived particles only
ShortBursts == [1..BurstSize -> {ShortSmoke}]

\* the page right after the seal was delivered to a fresh page: the first
\* session has started and its timer has not fired yet
PageInitSession ==
    /\ results = <<SealResult>>
    /\ prevStatusRef = "active"
    /\ handStatus = "active"
    /\ jutsuRef = TRUE
    /\ jutsuActive = TRUE
    /\ cloneCount = 0
    /\ intervals = <<0>>
    /\ nextIv = 2
    /\ calls = 1
    /\ detector = "ready"
    /\ hands = "open"
    /\ camera = "started"
    /\ unhandled = 0
    /\ GameInit

InitSmoke == PageInitSession /\ \E v \in Variants : CompInit(v)

\* one session of both compositors with the smoke list, in a viewport that
\* does not change: the only input after the seal is the two fists; the video
\* gains and loses its frame at any time, the particles are short-lived
NextSmoke ==
    \/ OnResults(FistResult)
    \/ IntervalFire(1)
    \/ \E b \in ShortBursts : Commit(b)
    \/ Tick
    \/ SegLoaded
    \/ SegResult
    \/ VideoChange

SpecSmoke == InitSmoke /\ [][NextSmoke]_vars

\* the same session with a video that has a frame from the start and keeps
\* it: every tick draws
InitPlay == PageInitSession /\ \E v \in Variants : CompMounted(v, TRUE)

NextPlay ==
    \/ OnResults(FistResult)
    \/ IntervalFire(1)
    \/ \E b \in Bursts : Commit(b)
    \/ Tick
    \/ SegLoaded
    \/ SegResult

SpecPlay == InitPlay /\ [][NextPlay]_vars

\* the panel compositor alone, in an active session, with a decodable video,
\* for every clone count up to MaxCount, several viewports and every narrow
\* window up to MaxWidth pixels
NarrowHeight == 100
LayoutViewports ==
    Viewports \cup {<<1920, 1080>>, <<1024, 768>>, <<360, 640>>}
        \cup {<<w, NarrowHeight>> : w \in 1..MaxWidth}

InitLayout ==
    /\ results = <<>>
    /\ prevStatusRef = "active"
    /\ handStatus = "active"
    /\ jutsuRef = TRUE
    /\ jutsuActive = TRUE
    /\ cloneCount \in 1..MaxCount
    /\ intervals = <<>>
    /\ nextIv = 2
    /\ calls = 1
    /\ detector = "ready"
    /\ hands = "open"
    /\ camera = "started"
    /\ unhandled = 0
    /\ GameInit
    /\ variant = "panel"
    /\ segLoad = "absent"
    /\ activeRef = TRUE
    /\ countRef = cloneCount
    /\ statusRef = "active"
    /\ resultsRef = <<>>
    /\ prevCountRef = cloneCount
    /\ flashRef = 0
    /\ segRef = FALSE
    /\ maskRef = 0
    /\ segBusyRef = FALSE
    /\ segInFlight = 0
    /\ videoReady = TRUE
    /\ video = CameraSize
    /\ mounted = TRUE
    /\ size \in LayoutViewports
    /\ lastDraw = "skipped"
    /\ rafPending = TRUE
    /\ pendingRafs = 1
    /\ canvas = Blank
    /\ smokes = <<>>

NextLayout ==
    \/ Tick
    \/ \E sz \in LayoutViewports : Resize(sz)

SpecLayout == InitLayout /\ [][NextLayout]_vars

\* the idle frame of the panel compositor alone, for every canvas and every
\* video up to MaxDim pixels a side; a video without dimensions is not drawn
CoverViewports == (1..MaxDim) \X (1..MaxDim)
CoverVideos == (0..MaxDim) \X (0..MaxDim)

\* the camera video gets other intrinsic dimensions
VideoMeta(v) ==
    /\ video' = v
    /\ UNCHANGED <<variant, activeRef, countRef, statusRef, resultsRef, prevCountRef,
                   flashRef, segRef, maskRef, segBusyRef, segInFlight, videoReady,
                   mounted, size, lastDraw, rafPending, pendingRafs, canvas, smokes>>
    /\ UNCHANGED <<pageVars, loadVars, gameVars>>

InitCover ==
    /\ PageInit
    /\ variant = "panel"
    /\ segLoad = "absent"
    /\ activeRef = FALSE
    /\ countRef = 0
    /\ statusRef = "idle"
    /\ resultsRef = <<>>
    /\ prevCountRef = 0
    /\ flashRef = 0
    /\ segRef = FALSE
    /\ maskRef = 0
    /\ segBusyRef = FALSE
    /\ segInFlight = 0
    /\ videoReady = TRUE
    /\ video \in CoverVideos
    /\ mounted = TRUE
    /\ size \in CoverViewports
    /\ lastDraw = "skipped"
    /\ rafPending = TRUE
    /\ pendingRafs = 1
    /\ canvas = Blank
    /\ smokes = <<>>

NextCover ==
    \/ Tick
    \/ \E sz \in CoverViewports : Resize(sz)
    \/ \E v \in CoverVideos : VideoMeta(v)

SpecCover == InitCover /\ [][NextCover]_vars

\* the page from its mount, while the hand detector is still loading
PageInitLoading ==
    /\ results = <<>>
    /\ prevStatusRef = "idle"
    /\ handStatus = "idle"
    /\ jutsuRef = FALSE
    /\ jutsuActive = FALSE
    /\ cloneCount = 0
    /\ intervals = <<>>
    /\ nextIv = 1
    /\ calls = 0
    /\ detector = "loading"
    /\ hands = "none"
    /\ camera = "none"
    /\ unhandled = 0
    /\ GameInit

InitLoad == PageInitLoading /\ \E v \in Variants : CompInit(v)

\* the sessions of both compositors in a fixed viewport, with the two models
\* loading or failing to load
NextLoad ==
    \/ HandsLoaded
    \/ HandsLoadFailed
    \/ SegLoaded
    \/ SegLoadFailed
    \/ \E r \in ResultsComp :
          /\ calls < MaxCallsLoad
          /\ OnResults(r)
    \/ \E iv \in 1..MaxCallsLoad : IntervalFire(iv)
    \/ \E b \in NoBurst : Commit(b)
    \/ Tick
    \/ SegResult
    \/ VideoChange

SpecLoad == InitLoad /\ [][NextLoad]_vars

TypeOK ==
    /\ Len(results) <= 1
    /\ prevStatusRef \in HandStatus
    /\ handStatus \in HandStatus
    /\ jutsuRef \in BOOLEAN
    /\ jutsuActive \in BOOLEAN
    /\ cloneCount \in Nat
    /\ DOMAIN intervals \subseteq 1..(nextIv - 1)
    /\ calls \in 0..MaxCalls

\* the page from its mount to its teardown, with the hand detector loading:
\* the classifier, the sequencer and the HandDetector init effect
NextTeardown ==
    \/ HandsLoaded
    \/ HandsLoadFailed
    \/ \E r \in ResultsSet :
          /\ calls < MaxCallsLoad
          /\ OnResults(r)
    \/ \E iv \in 1..MaxCallsLoad : IntervalFire(iv)
    \/ Unmount

SpecTeardown == InitLoad /\ [][NextTeardown]_vars

\* the segmentation compositor over several sessions, with a video that has
\* a frame from the start: seal, fists and seal again
InitMask == PageInit /\ CompMounted("seg", TRUE)

NextMask ==
    \/ \E r \in ResultsComp :
          /\ calls < MaxCallsMask
          /\ OnResults(r)
    \/ \E iv \in 1..MaxCallsMask : IntervalFire(iv)
    \/ \E b \in NoBurst : Commit(b)
    \/ Tick
    \/ SegLoaded
    \/ SegResult

SpecMask == InitMask /\ [][NextMask]_vars

(******************************* claims ************************************)
\* the predicates of the claims, stated on the landmarks themselves
FingerPairs == {<<8, 6>>, <<12, 10>>, <<16, 14>>, <<20, 18>>}
CurledHand(h) == \A f \in FingerPairs : h[f[1]].y > h[f[2]].y
ReadyHand(h) == \A f \in {<<8, 6>>, <<12, 10>>} : h[f[1]].y < h[f[2]].y
HasResult == Len(results) = 1
Landmarks == results[1].multiHandLandmarks
TwoHands == HasResult /\ results[1].defined /\ Len(Landmarks) >= 2
BothCurled == CurledHand(Landmarks[1]) /\ CurledHand(Landmarks[2])
BothReady == ReadyHand(Landmarks[1]) /\ ReadyHand(Landmarks[2])
WristDist2 ==
    (Landmarks[1][0].x - Landmarks[2][0].x) * (Landmarks[1][0].x - Landmarks[2][0].x)
    + (Landmarks[1][0].y - Landmarks[2][0].y) * (Landmarks[1][0].y - Landmarks[2][0].y)
\* a step in which the status-changed callback is invoked
Delivered == calls' # calls

\* C1: the status-changed callback is never invoked twice in a row with
\* the same status: every invocation carries a status different from the
\* one carried by the previous invocation.
C1_EdgeTriggered == [][Delivered => handStatus' # handStatus]_vars
\* after two invocations the callback carries idle again (something, then idle)
C1_Witness == calls = 2 /\ handStatus = "idle" /\ HasResult

\* C2: whenever both hands of the latest result are curled (all four
\* non-thumb tips strictly below their pips), the classified status is
\* fist, for every wrist distance.
C2_FistPrecedence == (TwoHands /\ BothCurled) => prevStatusRef = "fist"
\* two curled hands more than 0.3 apart, classified fist as the very first
\* emitted status (directly from idle, near and active never classified)
C2_Witness ==
    /\ TwoHands /\ BothCurled
    /\ WristDist2 > 900
    /\ prevStatusRef = "fist" /\ handStatus = "fist" /\ calls = 1

\* C3: whenever the latest result has fewer than 2 hands (no list, 0 hands
\* or 1 hand), the classified status is idle whatever the hand's geometry.
C3_FewerThanTwoIdle == (HasResult /\ ~TwoHands) => prevStatusRef = "idle"
\* a single curled hand classified idle after another status was emitted
C3_Witness ==
    /\ HasResult /\ results[1].defined /\ Len(Landmarks) = 1
    /\ CurledHand(Landmarks[1])
    /\ prevStatusRef = "idle" /\ calls = 2

\* C4: for two hands that are not both curled and whose wrists are more
\* than 0.3 apart, the classified status is far, even when both hands are
\* ready.
C4_FarThreshold ==
    (TwoHands /\ ~BothCurled /\ WristDist2 > 900) => prevStatusRef = "far"
\* both hands ready, wrists more than 0.3 apart, classified far
C4_Witness ==
    /\ TwoHands /\ ~BothCurled /\ BothReady
    /\ WristDist2 > 900
    /\ prevStatusRef = "far"

\* C5: for two hands that are not both curled and whose wrists are at most
\* 0.3 apart, the status is active exactly when the distance is at most
\* 0.15 and both hands are ready, and near in every other case.
C5_ActiveOrNear ==
    (TwoHands /\ ~BothCurled /\ WristDist2 <= 900) =>
        IF WristDist2 <= 225 /\ BothReady
        THEN prevStatusRef = "active"
        ELSE prevStatusRef = "near"
\* both hands ready at a wrist distance of exactly 0.15, classified active
C5_Witness ==
    /\ TwoHands /\ ~BothCurled /\ BothReady
    /\ WristDist2 = 225
    /\ prevStatusRef = "active"

\* C6: the active flag is set and a count timer is created only when the
\* callback delivers active while no session is running, and then exactly
\* one timer is created; a delivery of active during a running session
\* creates no timer and leaves the active flag and the clone count unchanged.
C6_StartOnlyOnActiveEdge ==
    [][ /\ ((jutsuRef' /\ ~jutsuRef) \/ (jutsuActive' /\ ~jutsuActive)
            \/ nextIv' # nextIv \/ ~(DOMAIN intervals' \subseteq DOMAIN intervals))
           => /\ Delivered /\ handStatus' = "active"
              /\ ~jutsuRef /\ jutsuRef' /\ jutsuActive'
              /\ nextIv' = nextIv + 1
              /\ DOMAIN intervals' = DOMAIN intervals \cup {nextIv}
        /\ (Delivered /\ handStatus' = "active" /\ jutsuRef)
           => UNCHANGED <<jutsuRef, jutsuActive, cloneCount, intervals, nextIv>>
      ]_vars
\* three deliveries ending in active with a single timer ever created: the
\* last active arrived while the session was already running
C6_Witness == calls = 3 /\ handStatus = "active" /\ jutsuRef /\ nextIv = 2

\* the closure count of the running session's own timer (the last one
\* created), or the maximum once that timer has been cleared
SessionTimerCount ==
    IF (nextIv - 1) \in DOMAIN intervals THEN intervals[nextIv - 1] ELSE CloneMax

\* C7: while a session runs, the observed clone count is 0 until the
\* session's timer first fires, 2 after its first firing and 4 after its
\* second firing and ever after.
C7_CountProgression == jutsuRef => cloneCount = SessionTimerCount

\* C8: a fist delivered while a session is running makes the session
\* inactive and sets the clone count to 0 in the same step.
C8_FistResets ==
    [][(Delivered /\ handStatus' = "fist" /\ jutsuRef)
        => (~jutsuRef' /\ ~jutsuActive' /\ cloneCount' = 0)]_vars
\* a fist reset of a session whose timer had already run to the maximum
C8_Witness ==
    /\ handStatus = "fist" /\ ~jutsuRef /\ ~jutsuActive
    /\ nextIv = 2 /\ DOMAIN intervals = {} /\ cloneCount = 0

\* C9: a fist edge cancels the session's timer, so that while no session
\* is running the clone count stays 0.
C9_TimerCancelledOnReset == ~jutsuRef => cloneCount = 0

\* C10: the clone count changes only by increasing by the step 2 while a
\* session is running, or by being reset to 0.
C10_CountChanges ==
    [][cloneCount' # cloneCount =>
        \/ (jutsuRef /\ jutsuRef' /\ cloneCount' = cloneCount + CloneStep)
        \/ cloneCount' = 0]_vars

\* C11: in every reachable state the clone count is 0, 2 or 4 (never
\* negative, odd, or above the maximum).
C11_CountValues == cloneCount \in {0, CloneStep, CloneMax}
\* the count has reached the maximum and its timer has been cleared
C11_Witness == cloneCount = 4 /\ jutsuRef /\ DOMAIN intervals = {}

\* C12: at the step in which a session starts, the clone count is 0.
C12_ZeroAtStart == [][(~jutsuRef /\ jutsuRef') => cloneCount' = 0]_vars

\* the latest input has two hands at wrist distance 0.10 with the index and
\* middle fingers of both hands extended
SealAtTenth == TwoHands /\ BothReady /\ ~BothCurled /\ WristDist2 = 10 * 10
\* exactly one session has been started since the page was loaded
FirstSession == nextIv = 2
\* the compositor has observed the current session flag and clone count
Committed == activeRef = jutsuActive /\ countRef = cloneCount
\* the first session is running and its timer has stopped at the maximum
ProgressionDone == FirstSession /\ jutsuRef /\ DOMAIN intervals = {}
\* the first session has been ended, no timer is pending and the count is 0
FirstSessionOver ==
    FirstSession /\ ~jutsuRef /\ DOMAIN intervals = {} /\ cloneCount = 0

C13_State ==
    /\ SealAtTenth => handStatus = "active"
    /\ (TwoHands /\ BothCurled) => (handStatus = "fist" /\ ~jutsuRef /\ ~jutsuActive)
    /\ (mounted /\ FirstSession /\ jutsuRef) => cloneCount = SessionTimerCount
    /\ (mounted /\ ProgressionDone) => cloneCount = CloneMax

C13_Step ==
    /\ (Delivered /\ handStatus' = "active" /\ nextIv = 1)
          => (jutsuRef' /\ jutsuActive' /\ cloneCount' = 0 /\ FirstSession')
    /\ (FirstSession /\ jutsuRef /\ jutsuRef' /\ cloneCount' # cloneCount)
          => cloneCount' = cloneCount + CloneStep
    /\ (Delivered /\ handStatus' = "fist" /\ jutsuRef)
          => (cloneCount' = 0 /\ ~jutsuActive' /\ ~jutsuRef')
    /\ (Delivered /\ handStatus' = "fist" /\ ProgressionDone) => FirstSessionOver'
    /\ (FirstSessionOver /\ ~jutsuRef') => cloneCount' = 0
    /\ (Tick /\ videoReady /\ FirstSessionOver /\ Committed) => canvas'.mode = "idle"

\* C13: from a fresh page, the seal at wrist distance 0.10 yields status
\* active and starts a session whose clone count goes 0, 2, 4; two fists
\* delivered afterwards yield status fist, the session is inactive, the clone
\* count is 0 and the next tick that has observed it draws the idle frame.
C13_EndToEnd == []C13_State /\ [][C13_Step]_vars
\* the first session has shown clones, two fists have ended it, and the tick
\* after the compositor observed the reset has replaced the clone frame
C13_Witness ==
    /\ FirstSessionOver /\ handStatus = "fist" /\ TwoHands /\ BothCurled
    /\ Committed
    /\ lastDraw = "drawn" /\ canvas.mode = "idle" /\ canvas.prevMode \in {"panel", "seg"}

\* a step in which draw() ran: as an animation-frame callback, or when the
\* render-loop effect restarted for the viewport size of the next state
DrawRan == Tick \/ Resize(size')
\* a step in which draw() ran past the video check and drew a frame
Drawn == lastDraw' = "drawn" /\ DrawRan
MaskAvailable == maskRef # 0
\* the render mode the specification selects from (active, count, mask-available)
SpecMode ==
    IF ~activeRef \/ countRef = 0 THEN "idle"
    ELSE IF MaskAvailable THEN "seg" ELSE "panel"
\* the render mode of each compositor source
CodeMode ==
    IF variant = "panel"
    THEN IF ~activeRef \/ countRef = 0 THEN "idle" ELSE "panel"
    ELSE IF activeRef /\ countRef > 0 /\ MaskAvailable THEN "seg" ELSE "idle"

\* C14 as stated: on every drawing tick the mode is Idle exactly when not
\* active or count = 0, Panel exactly when active, count > 0 and no mask, and
\* Segmentation-clone exactly when active, count > 0 and a mask is available.
C14_ModeOfTriple == [][Drawn => canvas'.mode = SpecMode]_vars
\* C14 amended: on every drawing tick the mode is a function of the values
\* read at that tick; the panel compositor draws Idle exactly when not active
\* or count = 0 and Panel otherwise; the segmentation compositor draws
\* Segmentation-clone exactly when active, count > 0 and a mask is stored, and
\* the full frame without clones otherwise: it has no panel fallback.
C14_ModePerSource == [][Drawn => canvas'.mode = CodeMode]_vars
\* the segmentation compositor has drawn the first frame after the count
\* became 2 in an active session, with no mask stored: the frame has no clones
C14_Witness ==
    /\ variant = "seg" /\ activeRef /\ countRef = CloneStep /\ ~MaskAvailable
    /\ flashRef = (FlashOne * FlashDecay("seg")) \div 100
    /\ lastDraw = "drawn" /\ canvas.mode = "idle"

\* the mode changes of the diagram Idle <-> Panel <-> Segmentation-clone
DiagramEdges ==
    {<<"idle", "panel">>, <<"panel", "idle">>, <<"panel", "seg">>, <<"seg", "panel">>}
ModesOf(v) == IF v = "panel" THEN {"idle", "panel"} ELSE {"idle", "seg"}

CeilHalf(n) == CHOOSE k \in 0..n : 2 * k >= n /\ 2 * (k - 1) < n
FloorHalf(n) == CHOOSE k \in 0..n : 2 * k <= n /\ 2 * (k + 1) > n
\* the panel numbers the layout gives for clone count c
LayoutIs(c, visible, left, right) ==
    countRef = c => /\ canvas.layout.visiblePanels = visible
                    /\ canvas.layout.leftClones = left
                    /\ canvas.layout.rightClones = right

\* C16: in panel mode, for every count >= 1, totalPanels = min(count, cap) + 1,
\* visiblePanels = min(totalPanels, 5), there are visiblePanels - 1 clone
\* panels, ceil of half of them left and floor of half of them right; count 2
\* gives 3 panels (1, 1), count 4 gives 5 (2, 2), count 6 gives 5 visible (2, 2).
C16_PanelCounts ==
    (canvas.mode = "panel") =>
        LET l == canvas.layout
            capped == IF countRef < PanelCap THEN countRef ELSE PanelCap
        IN /\ countRef >= 1
           /\ l.totalPanels = capped + 1
           /\ l.visiblePanels =
                 (IF l.totalPanels < MaxVisiblePanels THEN l.totalPanels
                  ELSE MaxVisiblePanels)
           /\ l.clonePanels = l.visiblePanels - 1
           /\ l.leftClones = CeilHalf(l.clonePanels)
           /\ l.rightClones = FloorHalf(l.clonePanels)
           /\ l.leftClones + l.rightClones = l.clonePanels
           /\ LayoutIs(2, 3, 1, 1)
           /\ LayoutIs(4, 5, 2, 2)
           /\ LayoutIs(6, 5, 2, 2)
\* count 6 was laid out: 7 panels in total, 5 of them visible
C16_Witness ==
    /\ canvas.mode = "panel" /\ countRef = 6 /\ lastDraw = "drawn"
    /\ canvas.layout.totalPanels = 7 /\ canvas.layout.visiblePanels = 5

\* C17: whenever the panel branch is executed count > 0, so the divisor
\* visiblePanels - 1 of the remaining width is at least 1 and the clone width
\* is a finite number.
C17_DivisorPositive ==
    [][(Drawn /\ canvas'.mode = "panel")
        => /\ countRef > 0
           /\ canvas'.layout.visiblePanels - 1 >= 1
           /\ canvas'.layout.cloneWidth # Infinity]_vars
\* the panel branch ran with the smallest count a session shows
C17_Witness ==
    /\ variant = "panel" /\ canvas.mode = "panel" /\ lastDraw = "drawn"
    /\ countRef = CloneStep /\ activeRef
    /\ canvas.layout.clonePanels = 2 /\ canvas.layout.cloneWidth > 0

\* C18: a tick that finds the video absent or not decodable draws nothing and
\* changes no compositor state (canvas, flash alpha, smoke list, busy flag,
\* frames submitted, stored mask, observed props), and requests the next tick.
C18_SkipTick ==
    [][(Tick /\ ~videoReady)
        => /\ UNCHANGED <<canvas, flashRef, smokes, segBusyRef, segInFlight>>
           /\ UNCHANGED <<maskRef, prevCountRef, activeRef, countRef>>
           /\ lastDraw' = "skipped"
           /\ rafPending' /\ pendingRafs' = pendingRafs]_vars
\* a tick was skipped while clones, flash and smoke were on screen and a
\* frame could have been submitted to the segmentation model
C18_Witness ==
    /\ variant = "seg" /\ lastDraw = "skipped" /\ ~videoReady
    /\ canvas.mode = "seg" /\ canvas.smoke > 0 /\ Len(smokes) > 0
    /\ flashRef > FlashThreshold
    /\ activeRef /\ segRef /\ ~segBusyRef
    /\ pendingRafs = 1

\* C19: every tick, drawing or skipping, requests exactly one next tick, so
\* exactly one animation-frame callback is pending while the compositor is
\* mounted, also after a viewport-size change restarted the loop, and none is
\* pending (so none runs) once it is torn down.
C19_OnePendingTick ==
    /\ mounted => (pendingRafs = 1 /\ rafPending)
    /\ ~mounted => (pendingRafs = 0 /\ ~rafPending)
\* the viewport changed, the restarted loop has drawn a frame, one tick pends
C19_Witness ==
    /\ mounted /\ size # <<1280, 720>> /\ lastDraw = "drawn" /\ canvas.mode # "none"
    /\ pendingRafs = 1

\* a frame was submitted to the segmentation model in this step
Submitted == segInFlight' = segInFlight + 1

\* C20: at most one segmentation inference is outstanding; a frame is
\* submitted only on a drawing tick with the session active, the model loaded
\* and the busy flag false; submitting sets the flag, only the result callback
\* clears it, and a tick that finds the flag set submits nothing.
C20_State ==
    /\ segInFlight \in {0, 1}
    /\ segBusyRef <=> segInFlight = 1
C20_Step ==
    /\ Submitted => (Drawn /\ activeRef /\ segRef /\ ~segBusyRef /\ segBusyRef')
    /\ (segBusyRef /\ ~segBusyRef') => (SegResult /\ segInFlight' = 0)
    /\ (DrawRan /\ segBusyRef)
          => (segInFlight' = segInFlight /\ segBusyRef')
C20_OneInference == []C20_State /\ [][C20_Step]_vars
\* a drawing tick of an active session found the model busy and submitted
\* nothing: one frame is still outstanding
C20_Witness ==
    /\ variant = "seg" /\ activeRef /\ segRef /\ segBusyRef /\ segInFlight = 1
    /\ lastDraw = "drawn" /\ canvas.mode = "seg" /\ canvas.prevMode = "seg"

\* the effects of CloneEffect observe a changed clone count in this step
CountObserved == countRef' # countRef
\* the step leaves the flash alpha at 1.0 after observing a changed count
FlashSet == CountObserved /\ flashRef' = FlashOne
\* the observed clone count changes from 0 to a nonzero value
ZeroEdge == countRef = 0 /\ countRef' > 0

\* C21: the flash alpha is set to 1.0 when, and only when, the observed clone
\* count changes from 0 to a nonzero value; a change between two nonzero
\* counts does not set it.  Violated: the timer of a session ended by the
\* fists keeps firing (C9), so a count of 2 is observed together with the
\* deactivation, which zeroes the remembered count, and the change from 2 to
\* 4 then sets the flash.
C21_FlashOnZeroEdge == [][FlashSet <=> ZeroEdge]_vars

\* 0.85^n in millionths, rounded down, for n = 0 .. 25
Pow85 ==
    <<1000000, 850000, 722500, 614125, 522006, 443705, 377149, 320577, 272490,
      231616, 196874, 167343, 142241, 120905, 102769, 87354, 74251, 63113,
      53646, 45599, 38759, 32945, 28003, 23803, 20232, 17197>>
\* the number of drawing ticks on which a flash of the panel source is drawn
FlashLast == Len(Pow85) - 1
\* the alpha stored after n drawing ticks of a flash, as draw() computes it
RECURSIVE FlashPow(_)
FlashPow(n) ==
    IF n = 0 THEN FlashOne ELSE (FlashPow(n - 1) * FlashDecay("panel")) \div 100
\* the stored alpha is within n millionths of 0.85^n: the rounding of the
\* model never moves a value across the threshold
FlashPowExact ==
    /\ \A n \in 0..FlashLast :
          FlashPow(n) <= Pow85[n + 1] /\ Pow85[n + 1] - FlashPow(n) <= n
    /\ \A n \in 0..(FlashLast - 1) : Pow85[n + 1] - n > FlashThreshold
    /\ Pow85[FlashLast + 1] < FlashThreshold
\* the number of drawing ticks that have drawn the flash since it was set
FlashIndex == CHOOSE n \in 0..FlashLast : FlashPow(n) = flashRef

C22_State ==
    variant = "panel" =>
        /\ FlashPowExact
        /\ flashRef = 0 \/ \E n \in 0..FlashLast : flashRef = FlashPow(n)
C22_Step ==
    (variant = "panel" /\ Drawn) =>
        IF flashRef > FlashThreshold
        THEN /\ FlashIndex < FlashLast
             /\ canvas'.flash = FlashPow(FlashIndex)
             /\ flashRef' = FlashPow(FlashIndex + 1)
        ELSE /\ canvas'.flash = 0
             /\ flashRef' = flashRef
\* outside a draw the alpha changes only by being set to 1.0 or zeroed
C22_Set ==
    (variant = "panel" /\ ~Drawn /\ flashRef' # flashRef) =>
        /\ CountObserved \/ activeRef' # activeRef
        /\ flashRef' \in {0, FlashOne}

\* C22 (as amended): after the flash alpha is set to 1.0, the n-th following
\* drawing tick draws the overlay with alpha 0.85^(n-1) and stores 0.85^n; the
\* overlay is drawn on a tick only while the stored alpha is above 0.02, that
\* is on at most 25 ticks, and once the alpha is at or below 0.02 the overlay
\* is not drawn and the alpha does not change until it is set or zeroed.
C22_FlashDecay == []C22_State /\ [][C22_Step /\ C22_Set]_vars

\* a flash that has ended after 25 drawn ticks: the alpha 0.85^25 is stored
\* and the latest draw painted no overlay
C22_Witness ==
    /\ variant = "panel" /\ lastDraw = "drawn"
    /\ canvas.flash = 0 /\ flashRef = FlashPow(FlashLast)

\* C22 (as stated): the alpha used on the n-th drawing tick that follows the
\* trigger is 0.85^n.  Violated on the first tick, which draws alpha 1.0.
C22_NthTickPower ==
    [][(variant = "panel" /\ Drawn /\ flashRef > FlashThreshold)
          => canvas'.flash = FlashPow(FlashIndex + 1)]_vars

\* a step in which the callback of a count timer runs
TimerFired == intervals' # intervals /\ nextIv' = nextIv

\* C23: after the page is torn down no firing of the count timer occurs and
\* the clone count is not written again.  Violated: nothing clears the
\* interval when the page unmounts, so the callback still runs until its own
\* count reaches the maximum.
C23_NoFiringAfterTeardown ==
    [][~mounted => (~TimerFired /\ cloneCount' = cloneCount)]_vars

\* no session is active, as the page and as the compositor see it
NoSession == ~jutsuRef /\ ~jutsuActive /\ ~activeRef
\* the step pushes particles onto the smoke list
Spawned == Len(smokes') > Len(smokes)

\* C24 (as stated): on a drawing tick at which no session is active no smoke
\* particle is drawn.  Violated: the smoke loop of draw() does not read the
\* active flag, so the particles of a session ended by the fists are drawn
\* until their life runs out.
C24_SmokeOnlyActive == [][(Drawn /\ NoSession) => canvas'.smoke = 0]_vars

\* C24 (as amended): particles are pushed only by the cloneCount effect of
\* the segmentation compositor, when it observes a nonzero count while the
\* remembered count is 0; every drawing tick of that compositor integrates
\* the list and draws every particle left in it, whether or not a session is
\* active; the panel compositor has no particles.
C24_SmokeEveryTick ==
    /\ [](variant = "panel" => smokes = <<>> /\ canvas.smoke = 0)
    /\ [][/\ Spawned => /\ variant = "seg" /\ CountObserved
                        /\ countRef' > 0 /\ prevCountRef = 0
          /\ Drawn => /\ canvas'.smoke = Len(smokes')
                      /\ Len(smokes') <= Len(smokes)
                      /\ smokes # <<>> /\ smokes[1].life > SmokeDecay
                            => canvas'.smoke > 0]_vars

\* smoke drawn by a tick that ran with no session active
C24_Witness ==
    /\ variant = "seg" /\ lastDraw = "drawn" /\ canvas.smoke > 0
    /\ NoSession /\ handStatus = "fist" /\ smokes # <<>>
    /\ smokes[1].life < smokes[1].maxLife - SmokeDecay

\* the particle p as the smoke loop of draw() leaves it
Integrated(p) ==
    [x |-> p.x + p.vx, y |-> p.y + p.vy, vx |-> p.vx, vy |-> p.vy,
     r |-> p.r + SmokeGrowth, life |-> p.life - SmokeDecay, maxLife |-> p.maxLife]
PositiveLife(p) == p.life > 0
\* the drawing ticks a particle has lived through
TicksLived(p) == (p.maxLife - p.life) \div SmokeDecay
\* no particle outlives this number of drawing ticks
MaxTicks == (LifeMin + LifeSpan) \div SmokeDecay + 1

C25_State ==
    \A i \in 1..Len(smokes) :
        /\ smokes[i].life > 0
        /\ smokes[i].maxLife - smokes[i].life = TicksLived(smokes[i]) * SmokeDecay
        /\ smokes[i].r >= TicksLived(smokes[i]) * SmokeGrowth
        /\ TicksLived(smokes[i]) < MaxTicks
C25_Step ==
    (Drawn /\ variant = "seg") =>
        /\ smokes' = SelectSeq([i \in 1..Len(smokes) |-> Integrated(smokes[i])],
                               PositiveLife)
        /\ canvas'.smoke = Len(smokes')

\* C25: every drawing tick advances each particle by its velocity, grows its
\* radius by the growth constant and lowers its life by the decay constant; a
\* particle whose life is then at or below 0 is removed and not drawn on that
\* tick; the list holds only particles with life > 0 between ticks, and a
\* particle has lost the decay constant once per tick it lived through, so it
\* is removed within MaxTicks drawing ticks.
C25_SmokeIntegration == []C25_State /\ [][C25_Step]_vars

\* a drawing tick has removed the last particle of a burst
C25_Witness ==
    /\ variant = "seg" /\ lastDraw = "drawn" /\ smokes = <<>> /\ canvas.smoke = 0
    /\ canvas.cutouts > 0 /\ flashRef > 0 /\ flashRef <= FlashThreshold

\* C26 (as stated): every particle has life in (0, 1].  Violated at the
\* spawn: the life drawn by spawnSmokeBurst is 0.6 + 0.8 * random, up to 1.4.
C26_LifeInUnit ==
    \A i \in 1..Len(smokes) : smokes[i].life > 0 /\ smokes[i].life <= 1000

\* C26 (as amended): every particle in the list has 0 < life <= maxLife, with
\* maxLife, the life at the spawn, in [0.6, 1.4); the ratio life / maxLife,
\* which scales the alpha of the particle, is in (0, 1].
C26_LifeBounds ==
    \A i \in 1..Len(smokes) :
        /\ smokes[i].life > 0
        /\ smokes[i].life <= smokes[i].maxLife
        /\ smokes[i].maxLife >= LifeMin
        /\ smokes[i].maxLife < LifeMin + LifeSpan

\* a particle whose life is above 1.0 after some drawing ticks
C26_Witness ==
    /\ smokes # <<>> /\ lastDraw = "drawn"
    /\ smokes[1].life > 1000 /\ smokes[1].life < smokes[1].maxLife

\* the tick reads a landmark set: a result is stored and it carries a list
LandmarkSet == resultsRef # <<>> /\ resultsRef[1].defined

CoverFits(c) ==
    /\ c.den > 0
    /\ c.sw * c.dh = c.sh * c.dw
    /\ c.sw > 0 /\ c.sh > 0
    /\ \/ c.sw = c.vw * c.den /\ c.sx = 0
       \/ c.sh = c.vh * c.den /\ c.sy = 0
    /\ c.sx >= 0 /\ c.sy >= 0
    /\ c.sx + c.sw + c.sx = c.vw * c.den
    /\ c.sy + c.sh + c.sy = c.vh * c.den

\* C28: for every destination rectangle and every source size with positive
\* dimensions, the crop computed by drawCover has the aspect ratio of the
\* destination (crop width x destination height = crop height x destination
\* width), spans the full source on one axis and is centered on the other
\* with equal margins on both sides; a source without dimensions is not drawn.
C28_CoverFit ==
    \A i \in DOMAIN canvas.images :
        LET c == canvas.images[i] IN
        /\ c.drawn <=> (c.vw > 0 /\ c.vh > 0)
        /\ (c.drawn /\ c.dw > 0 /\ c.dh > 0) => CoverFits(c)

\* a frame whose crop leaves a margin above and below, and spans the width
C28_Witness ==
    /\ lastDraw = "drawn" /\ canvas.images # <<>>
    /\ canvas.images[1].drawn /\ canvas.images[1].sy > 0
    /\ canvas.images[1].sw = canvas.images[1].vw * canvas.images[1].den

\* a model has failed to load
LoadFailed == detector = "failed" \/ segLoad = "failed"

\* C29: a failure to load the hand-landmark model or the segmentation model
\* is caught; after it the status stays idle, no session starts, no frame is
\* submitted to the segmentation model and every frame drawn is in Idle mode
\* without overlay.  Violated: neither init effect has a try/catch, so the
\* rejection reaches no handler; and when only the segmentation model fails
\* the detector still starts sessions.
C29_LoadFailureCaught ==
    LoadFailed =>
        /\ unhandled = 0
        /\ handStatus = "idle" /\ ~jutsuRef /\ ~jutsuActive
        /\ segInFlight = 0 /\ ~segBusyRef
        /\ lastDraw = "drawn" => canvas.mode = "idle" /\ ~canvas.skeleton

\* the sum of the widths of the first n rectangles of P
RECURSIVE WidthSum(_, _)
WidthSum(P, n) == IF n = 0 THEN 0 ELSE WidthSum(P, n - 1) + P[n].dw

\* the rectangles P drawn on a canvas W wide with the layout lay: widths as
\* stated, each inside [0, W], pairwise disjoint, the main panel (drawn
\* last) one gap after the left clone group
PanelsFit(P, lay, W) ==
    LET n == Len(P)
        mainWidth == (W * 42) \div 100
        cloneWidth == (W - mainWidth - 4 * (n - 1)) \div (n - 1)
    IN /\ n = lay.visiblePanels /\ n >= 2
       /\ P[n].dw = mainWidth
       /\ \A i \in 1..(n - 1) : P[i].dw = cloneWidth
       /\ \A i \in 1..n : P[i].dx >= 0 /\ P[i].dx + P[i].dw <= W /\ P[i].dw >= 1
       /\ \A i \in 1..n : \A j \in (i + 1)..n :
             P[i].dx + P[i].dw <= P[j].dx \/ P[j].dx + P[j].dw <= P[i].dx
       /\ P[n].dx = lay.leftClones * (cloneWidth + 4)
       /\ P[n].dx = P[1].dx + P[1].dw + 4
       /\ \A i \in 1..lay.leftClones : P[i].dx + P[i].dw < P[n].dx
       /\ \A i \in (lay.leftClones + 1)..(n - 1) : P[i].dx >= P[n].dx + P[n].dw
       /\ WidthSum(P, n) + 4 * (n - 1) <= W

\* C30: in panel mode, for every canvas width W at which the clone width is
\* at least 1, with main width floor(0.42 W), gap 4 and clone width
\* floor((W - mainWidth - gap * (visiblePanels - 1)) / (visiblePanels - 1)):
\* every panel lies within [0, W], the main panel starts right after the
\* left clone group, and no two panels overlap (the widths of all panels plus
\* the gaps between them sum to at most W).
C30_PanelsFit ==
    [][(Drawn /\ canvas'.mode = "panel" /\ canvas'.layout.cloneWidth >= 1)
          => PanelsFit(canvas'.images, canvas'.layout, size'[1])]_vars

\* five panels on a canvas 1280 wide: clones at 185 and 0, at 1099 and 914,
\* the main panel from 370 to 907
C30_Witness ==
    /\ lastDraw = "drawn" /\ canvas.mode = "panel" /\ size = <<1280, 720>>
    /\ Len(canvas.images) = 5
    /\ canvas.images[1].dx = 185 /\ canvas.images[2].dx = 0
    /\ canvas.images[3].dx = 1099 /\ canvas.images[4].dx = 914
    /\ canvas.images[5].dx = 370 /\ canvas.images[5].dw = 537

\* C31: a running session stays active through every delivery of idle, far,
\* near and active (also when fewer than two hands are in the frame) and
\* through every timer firing; only a delivery of fist makes it inactive, and
\* that delivery always does.
C31_ActiveUntilFist ==
    [][(jutsuRef /\ jutsuActive)
          => IF Delivered /\ handStatus' = "fist"
             THEN ~jutsuRef' /\ ~jutsuActive'
             ELSE jutsuRef' /\ jutsuActive']_vars
\* the session is running and the last delivery was idle, from a result
\* without two hands
C31_Witness ==
    /\ jutsuRef /\ jutsuActive
    /\ handStatus = "idle" /\ prevStatusRef = "idle"
    /\ Len(results) = 1 /\ Len(results[1].multiHandLandmarks) < 2
    /\ cloneCount > 0

\* the HandDetector cleanup has run
TornDown == ~mounted
C32_State ==
    /\ TornDown => (hands # "open" /\ camera # "started")
    /\ (TornDown /\ detector \in {"loading", "cancelled", "failed"})
          => (hands = "none" /\ camera = "none")
    /\ (TornDown /\ detector = "ready") => (hands = "closed" /\ camera = "stopped")
C32_Step ==
    /\ TornDown => /\ ~Delivered
                   /\ UNCHANGED <<results, prevStatusRef, handStatus, hands, camera>>
    /\ (mounted /\ TornDown' /\ detector = "ready")
          => (hands' = "closed" /\ camera' = "stopped")

C33_OneTimer == Cardinality(DOMAIN intervals) <= 1

\* C34: while the compositor sees no active session the flash alpha and the
\* remembered previous count are 0, so no drawing tick paints the flash
\* overlay then.  Violated: the timer of an ended session still raises the
\* clone count, and the count effect sets the flash alpha to 1 while the
\* session is inactive.
C34_NoFlashInactive ==
    /\ [](~activeRef => (flashRef = 0 /\ prevCountRef = 0))
    /\ [][(Drawn /\ ~activeRef) => canvas'.flash = 0]_vars

\* a segmentation result arrives in this step
SegAnswered == segInFlight' = segInFlight - 1
\* C35: once a segmentation result has been received a mask stays stored in
\* every later state, and only the next result replaces it: no fist, no
\* deactivation and no start of a session clears or changes the stored mask.
C35_MaskKept ==
    [][/\ MaskAvailable => MaskAvailable'
       /\ ~SegAnswered => maskRef' = maskRef]_vars
\* the second session stamps clones with the mask received during the first
C35_Witness ==
    /\ lastDraw = "drawn" /\ canvas.mode = "seg" /\ canvas.cutouts > 0
    /\ jutsuRef /\ activeRef /\ nextIv = 3
    /\ maskRef = 1

\* a result is received in this step, and it has fewer than two hands
FewHandsReceived ==
    /\ \E r \in ResultsSet : OnResults(r)
    /\ (~results'[1].defined \/ Len(results'[1].multiHandLandmarks) < 2)

\* C36: the previously-emitted status is idle until the first invocation of
\* the status-changed callback, so the first invocation never carries idle; a
\* result with fewer than two hands received before any invocation invokes
\* nothing, so the callback is never invoked while every result has fewer
\* than two hands.
C36_FirstNeverIdle ==
    /\ [](calls = 0 => (prevStatusRef = "idle" /\ handStatus = "idle"))
    /\ [][(calls = 0 /\ Delivered) => handStatus' # "idle"]_vars
    /\ [][(calls = 0 /\ FewHandsReceived) => ~Delivered]_vars
\* the first invocation carried far
C36_Witness ==
    /\ calls = 1 /\ handStatus = "far" /\ prevStatusRef = "far"
    /\ TwoHands /\ ~jutsuRef

\* the state changes of the mini-game
GameEdges ==
    {<<"start", "playing">>, <<"playing", "gameover">>, <<"gameover", "playing">>}
\* after this step the tip of the slash lies on an unsliced bomb
BombHit ==
    /\ Len(trailRef') > 2
    /\ \E i \in 1..Len(fruitsRef') :
          /\ fruitsRef'[i].bomb /\ ~fruitsRef'[i].sliced
          /\ TipHits(fruitsRef'[i], trailRef'[Len(trailRef')])
C37_State == uiState = stateRef /\ stateRef \in {"start", "playing", "gameover"}
C37_Step ==
    /\ stateRef' # stateRef => <<stateRef, stateRef'>> \in GameEdges
    /\ (stateRef # "playing" /\ stateRef' = "playing") => startGame
    /\ (stateRef = "playing" /\ stateRef' = "gameover")
          => (update /\ (BombHit \/ livesRef' <= 0))
    /\ (stateRef # "playing" /\ update)
          => UNCHANGED <<stateRef, scoreRef, livesRef, fruitsRef, frameRef>>

\* C37: the game state changes only from start to playing and from gameover
\* to playing, both by startGame, and from playing to gameover, by a tick on
\* which the slash tip hits an unsliced bomb or the lives reach 0 or less;
\* start is never re-entered, and a tick that begins in start or gameover
\* leaves the score, the lives and the fruit list unchanged.
C37_GameStates == []C37_State /\ [][C37_Step]_vars
\* a game restarted after a game over, with one life configured
C37_Witness ==
    /\ stateRef = "playing" /\ uiState = "playing"
    /\ frameRef > 300 /\ fruitsRef = <<>>
    /\ livesRef = 1 /\ settings.lives = 1 /\ scoreRef = 0

\* C38: once a game has been started the lives counter stays between 0 and
\* the configured number of lives, it only drops during a tick of play, and
\* the game is over whenever it is at or below 0.  Violated: the fruit loop
\* goes on after the game is over, so a tick on which more unsliced fruits
\* leave the bottom than lives are left makes the counter negative.
C38_LivesRange ==
    /\ [](stateRef # "start" => (0 <= livesRef /\ livesRef <= settings.lives))
    /\ []((stateRef # "start" /\ livesRef <= 0) => stateRef = "gameover")
    /\ [][livesRef' < livesRef => (startGame \/ (update /\ stateRef = "playing"))]_vars

\* the step is a tick of play that spawns and moves fruit with the values of
\* the settings object set
PlaysWith(set) ==
    \E s \in SpawnSamples :
        LET w == canvasSize[1]
            h == canvasSize[2]
            spawned == IF frameRef' % set.spawnRate = 0
                       THEN Append(fruitsRef, spawnFruit(w, h, s, set))
                       ELSE fruitsRef
            g == FruitLoop(Len(spawned),
                           [state |-> stateRef, score |-> scoreRef,
                            lives |-> livesRef, fruits |-> spawned],
                           trailRef', h, set)
        IN /\ fruitsRef' = g.fruits
           /\ livesRef' = g.lives
           /\ scoreRef' = g.score
           /\ stateRef' = g.state

\* C39: every tick of play spawns fruit at the spawn rate and with the launch
\* power of the currently selected settings and moves it with their gravity.
\* Violated: the game loop keeps the settings of the first render (medium).
C39_LoopUsesSelected ==
    [][(update /\ stateRef = "playing") => PlaysWith(settings)]_vars
====
